---- MODULE Spec2Model ----
\* Verification model of the listening-history analytics scripts
\* (history_top_by_year.py, history_top_songs_by_platform.py,
\*  history_top_songs_by_platform_grouped.py, history_top_from_folder.py,
\*  count_bad_bunny_playlist_plays.py).
\* Python strings are modelled as sequences of one-character strings.
EXTENDS Integers, Sequences, FiniteSets, TLC

\* ------------------------------------------------------------------
\* State
\* ------------------------------------------------------------------
\* clsIn, clsOut, clsDone: one call of normalize_platform_to_group.
\* fnIn, fnOut, fnDone: one call of a pure helper (track key, ranking, Gini, flatness, consistency).
\* stream: the records yielded by iter_history_records (same folder for every script).
\* pcY, pcG, pcP, pcF, pcB: position of each script's loop over the stream
\*   (history_top_by_year, ..._platform_grouped, ..._platform, history_top_from_folder,
\*    count_bad_bunny_playlist_plays).
\* catalog, catPos: playlist items returned by the Catalog Source and the position of
\*   fetch_playlist_tracks' loop over them.
\* yBk, gSt, pSt, fSt, bSt: each script's aggregation buckets; bCat: the catalog index
\*   (uri_to_display, uri_set, key_to_display, display_to_key).
VARIABLES clsIn, clsOut, clsDone,
          fnIn, fnOut, fnDone,
          stream, pcY, pcG, pcP, pcF, pcB, catalog, catPos,
          yBk, gSt, pSt, fSt, bSt, bCat

clsVars == <<clsIn, clsOut, clsDone>>
fnVars == <<fnIn, fnOut, fnDone>>
runVars == <<stream, pcY, pcG, pcP, pcF, pcB, catalog, catPos, yBk, gSt, pSt, fSt, bSt, bCat>>
vars == <<clsIn, clsOut, clsDone, fnIn, fnOut, fnDone, stream, pcY, pcG, pcP, pcF, pcB, catalog, catPos, yBk, gSt, pSt, fSt, bSt, bCat>>

\* ------------------------------------------------------------------
\* Characters and Python str helpers
\* ------------------------------------------------------------------
\* The model's alphabet: U+0000..U+00FF (ASCII, the C1 controls and Latin-1), the space
\* U+1680, and the three letters outside
\* Latin-1 that case mapping of Latin-1 produces (U+0178, U+039C, U+03BC). Several
\* literals below are invisible characters; their code points are given in comments.
\* U+0178, the str.upper() of U+00FF: SANY does not accept it inside a string literal, so the model
\* names it by this token
CapitalYDiaeresis == "U+0178"
\* U+0000, kept out of the file as a raw byte
NullChar == "U+0000"
\* U+0060, which SANY does not accept inside a string literal
GraveAccent == "U+0060"
\* Upper-case letters (str.isupper()) and, at the same index, their str.lower()
UpperLetters ==
 <<
  "A","B","C","D","E","F","G","H","I","J","K","L","M","N","O","P","Q","R","S","T","U","V","W","X","Y","Z",
  "À","Á","Â","Ã","Ä","Å","Æ","Ç","È","É","Ê","Ë","Ì","Í","Î","Ï","Ð","Ñ","Ò","Ó","Ô","Õ","Ö","Ø","Ù","Ú",
  "Û","Ü","Ý","Þ",CapitalYDiaeresis,"Μ">>
LowerLetters ==
 <<
  "a","b","c","d","e","f","g","h","i","j","k","l","m","n","o","p","q","r","s","t","u","v","w","x","y","z",
  "à","á","â","ã","ä","å","æ","ç","è","é","ê","ë","ì","í","î","ï","ð","ñ","ò","ó","ô","õ","ö","ø","ù","ú",
  "û","ü","ý","þ","ÿ","μ">>
\* str.islower() letters with no upper-case letter of the alphabet mapping to them:
\* U+00AA, U+00B5, U+00BA, U+00DF
OtherLowerLetters == {"ª", "µ", "º", "ß"}
DigitChars == {"0","1","2","3","4","5","6","7","8","9"}
\* str.isspace() / re \s: \t \n U+000B \f \r U+001C..U+001F space U+0085 U+00A0 U+1680
Whitespace == {"\t", "\n", "", "\f", "\r", "", "", "", "", " ", "", " ", " "}

IsUpper(c) == \E i \in 1..Len(UpperLetters) : UpperLetters[i] = c
IsLower(c) == (\E i \in 1..Len(LowerLetters) : LowerLetters[i] = c) \/ c \in OtherLowerLetters
IsCased(c) == IsUpper(c) \/ IsLower(c)
\* re \w: str.isalnum() or "_"; besides letters and ASCII digits these are U+00B2, U+00B3,
\* U+00B9 and U+00BC..U+00BE
IsWordChar(c) == IsCased(c) \/ c \in DigitChars \/ c \in {"_", "²", "³", "¹", "¼", "½", "¾"}
LowerChar(c) ==
  IF IsUpper(c) THEN LowerLetters[CHOOSE i \in 1..Len(UpperLetters) : UpperLetters[i] = c] ELSE c
\* str.title() of one character that starts a word (U+00B5 gives U+039C, U+00DF gives "Ss")
TitleChar(c) ==
  IF c = "µ" THEN <<"Μ">>
  ELSE IF c = "ß" THEN <<"S", "s">>
  ELSE IF \E i \in 1..Len(LowerLetters) : LowerLetters[i] = c
       THEN <<UpperLetters[CHOOSE i \in 1..Len(LowerLetters) : LowerLetters[i] = c]>>
  ELSE <<c>>

\* str.lower()
Lower(s) == [i \in 1..Len(s) |-> LowerChar(s[i])]
\* str.startswith(t)
StartsWith(s, t) == Len(t) <= Len(s) /\ SubSeq(s, 1, Len(t)) = t
\* t in s
Contains(s, t) == \E i \in 0..(Len(s) - Len(t)) : SubSeq(s, i + 1, i + Len(t)) = t
\* literal t occurs in s at 1-based position i
MatchLit(s, i, t) == i >= 1 /\ i + Len(t) - 1 <= Len(s) /\ SubSeq(s, i, i + Len(t) - 1) = t

RECURSIVE SpaceRunLen(_, _)
SpaceRunLen(s, i) == IF i >= 1 /\ i <= Len(s) /\ s[i] \in Whitespace THEN 1 + SpaceRunLen(s, i + 1) ELSE 0
RECURSIVE DigitRunLen(_, _)
DigitRunLen(s, i) == IF i >= 1 /\ i <= Len(s) /\ s[i] \in DigitChars THEN 1 + DigitRunLen(s, i + 1) ELSE 0
SkipSp(s, i) == i + SpaceRunLen(s, i)

RECURSIVE RStripSet(_, _)
RStripSet(s, cs) == IF s # <<>> /\ s[Len(s)] \in cs THEN RStripSet(SubSeq(s, 1, Len(s) - 1), cs) ELSE s
RECURSIVE LStripSet(_, _)
LStripSet(s, cs) == IF s # <<>> /\ Head(s) \in cs THEN LStripSet(Tail(s), cs) ELSE s
\* str.strip()
Strip(s) == RStripSet(LStripSet(s, Whitespace), Whitespace)
\* str.rstrip(c)
RStripChar(s, c) == RStripSet(s, {c})

\* s.split(c, 1)[1] if c in s else ""
AfterFirst(s, c) ==
  IF \E i \in 1..Len(s) : s[i] = c
  THEN LET i == CHOOSE i \in 1..Len(s) : s[i] = c /\ \A j \in 1..(i - 1) : s[j] # c
       IN SubSeq(s, i + 1, Len(s))
  ELSE <<>>
\* s.split(c, 1)[0]
BeforeFirst(s, c) ==
  IF \E i \in 1..Len(s) : s[i] = c
  THEN LET i == CHOOSE i \in 1..Len(s) : s[i] = c /\ \A j \in 1..(i - 1) : s[j] # c
       IN SubSeq(s, 1, i - 1)
  ELSE s

\* re.sub(r"\s*<o>[^<c>]*<c>\s*", r, s): leftmost-first scan, resuming after each match
RECURSIVE SubDelim(_, _, _, _)
SubDelim(s, o, c, r) ==
  IF s = <<>> THEN <<>>
  ELSE LET j == 1 + SpaceRunLen(s, 1)
       IN IF j <= Len(s) /\ s[j] = o /\ (\E k \in (j + 1)..Len(s) : s[k] = c)
          THEN LET k == CHOOSE k \in (j + 1)..Len(s) : s[k] = c /\ \A m \in (j + 1)..(k - 1) : s[m] # c
                   rest == SubSeq(s, k + 1, Len(s))
               IN r \o SubDelim(SubSeq(rest, 1 + SpaceRunLen(rest, 1), Len(rest)), o, c, r)
          ELSE <<Head(s)>> \o SubDelim(Tail(s), o, c, r)

\* re.sub(r"\s*\([^\)]*\)\s*", "", s)
SubParens(s) == SubDelim(s, "(", ")", <<>>)
\* re.sub(r"\s*\[[^\]]*\]\s*", " ", s)
SubBrackets(s) == SubDelim(s, "[", "]", <<" ">>)

\* str.title()
RECURSIVE TitleFrom(_, _)
TitleFrom(s, prevCased) ==
  IF s = <<>> THEN <<>>
  ELSE IF IsCased(Head(s))
       THEN (IF prevCased THEN <<LowerChar(Head(s))>> ELSE TitleChar(Head(s))) \o TitleFrom(Tail(s), TRUE)
       ELSE <<Head(s)>> \o TitleFrom(Tail(s), FALSE)
Title(s) == TitleFrom(s, FALSE)

\* ------------------------------------------------------------------
\* Regex fragments of normalize_platform_to_group (matched on the lowered string)
\* ------------------------------------------------------------------
\* \s+(\d+) starting at i: captured digits, or <<>> when it does not match
SpDig(s, i) ==
  LET j == SkipSp(s, i) IN
  IF SpaceRunLen(s, i) >= 1 /\ DigitRunLen(s, j) >= 1 THEN SubSeq(s, j, j + DigitRunLen(s, j) - 1) ELSE <<>>
\* index just after the digits matched by SpDig(s, i)
SpDigEnd(s, i) == LET j == SkipSp(s, i) IN j + DigitRunLen(s, j)
\* (?:[\.\s]|$) at e
VerTerm(s, e) == e > Len(s) \/ s[e] = "." \/ s[e] \in Whitespace
\* \b after a digit at e - 1
WordBoundaryAt(s, e) == e > Len(s) \/ ~IsWordChar(s[e])

\* re.search(kw + r"\s+(\d+)", s).group(1), or <<>>
KwSearch(s, kw) ==
  LET hits == {i \in 1..Len(s) : MatchLit(s, i, kw) /\ SpDig(s, i + Len(kw)) # <<>>}
  IN IF hits = {} THEN <<>> ELSE LET i == CHOOSE i \in hits : \A h \in hits : i <= h IN SpDig(s, i + Len(kw))

Unknown == <<"U","n","k","n","o","w","n">>
\* keywords and markers searched for in the lowered platform string
Kw == [webPlayerUnderscore |-> <<"w","e","b","_","p","l","a","y","e","r">>,
       webPlayerSpace      |-> <<"w","e","b"," ","p","l","a","y","e","r">>,
       windows             |-> <<"w","i","n","d","o","w","s">>,
       linux               |-> <<"l","i","n","u","x">>,
       ios                 |-> <<"i","o","s">>,
       android             |-> <<"a","n","d","r","o","i","d">>,
       mac                 |-> <<"m","a","c">>,
       os                  |-> <<"o","s">>,
       x                   |-> <<"x">>,
       macos               |-> <<"m","a","c","o","s">>,
       tablet              |-> <<"-","t","a","b","l","e","t">>,
       partner             |-> <<"p","a","r","t","n","e","r">>,
       tesla               |-> <<"t","e","s","l","a">>,
       roku                |-> <<"r","o","k","u">>,
       cast                |-> <<"c","a","s","t">>,
       group               |-> <<"g","r","o","u","p">>,
       googleCast          |-> <<"g","o","o","g","l","e"," ","c","a","s","t">>]
\* group labels ("Web Player " prefix, vendor and OS family labels)
Lbl == [webPlayer       |-> <<"W","e","b"," ","P","l","a","y","e","r"," ">>,
        tesla           |-> <<"T","e","s","l","a">>,
        rokuTV          |-> <<"R","o","k","u"," ","T","V">>,
        googleCastGroup |-> <<"G","o","o","g","l","e"," ","C","a","s","t"," ","G","r","o","u","p">>,
        googleCast      |-> <<"G","o","o","g","l","e"," ","C","a","s","t">>,
        partner         |-> <<"P","a","r","t","n","e","r">>,
        linux           |-> <<"L","i","n","u","x">>,
        windows         |-> <<"W","i","n","d","o","w","s"," ">>,
        android         |-> <<"A","n","d","r","o","i","d"," ">>,
        ios             |-> <<"i","O","S"," ">>,
        macos           |-> <<"m","a","c","O","S"," ">>]

\* mac\s*os\s*x at i: index after the match, or 0
MacOsXEnd(s, i) ==
  IF MatchLit(s, i, Kw.mac) /\ MatchLit(s, SkipSp(s, i + 3), Kw.os)
     /\ MatchLit(s, SkipSp(s, SkipSp(s, i + 3) + 2), Kw.x)
  THEN SkipSp(s, SkipSp(s, i + 3) + 2) + 1 ELSE 0
\* os\s*x at i: index after the match, or 0
OsXEnd(s, i) ==
  IF MatchLit(s, i, Kw.os) /\ MatchLit(s, SkipSp(s, i + 2), Kw.x) THEN SkipSp(s, i + 2) + 1 ELSE 0

\* re.search(r"(?:mac\s*os\s*x|macos)\s+(\d+)", s) at i
MacSearchAt(s, i) ==
  IF MacOsXEnd(s, i) > 0 /\ SpDig(s, MacOsXEnd(s, i)) # <<>> THEN SpDig(s, MacOsXEnd(s, i))
  ELSE IF MatchLit(s, i, Kw.macos) /\ SpDig(s, i + 5) # <<>> THEN SpDig(s, i + 5)
  ELSE <<>>
MacSearch(s) ==
  LET hits == {i \in 1..Len(s) : MacSearchAt(s, i) # <<>>}
  IN IF hits = {} THEN <<>> ELSE MacSearchAt(s, CHOOSE i \in hits : \A h \in hits : i <= h)

\* ^Windows\s+(\d+)\b  (IGNORECASE)
WindowsMatch(pl) ==
  IF MatchLit(pl, 1, Kw.windows) /\ SpDig(pl, 8) # <<>> /\ WordBoundaryAt(pl, SpDigEnd(pl, 8))
  THEN SpDig(pl, 8) ELSE <<>>
\* ^Android\s+(\d+)(?:[\.\s]|$)
AndroidMatch(pl) ==
  IF MatchLit(pl, 1, Kw.android) /\ SpDig(pl, 8) # <<>> /\ VerTerm(pl, SpDigEnd(pl, 8))
  THEN SpDig(pl, 8) ELSE <<>>
\* ^Android(?:-tablet)?\s+OS\s+(\d+)
AndroidOsMatch(pl) ==
  LET a == IF MatchLit(pl, 8, Kw.tablet) THEN 15 ELSE 8
      b == SkipSp(pl, a)
  IN IF MatchLit(pl, 1, Kw.android) /\ SpaceRunLen(pl, a) >= 1 /\ MatchLit(pl, b, Kw.os) /\ SpDig(pl, b + 2) # <<>>
     THEN SpDig(pl, b + 2) ELSE <<>>
\* ^iOS\s+(\d+)(?:[\.\s]|$)
IosMatch(pl) ==
  IF MatchLit(pl, 1, Kw.ios) /\ SpDig(pl, 4) # <<>> /\ VerTerm(pl, SpDigEnd(pl, 4))
  THEN SpDig(pl, 4) ELSE <<>>
\* alternative ending at e followed by \s+(\d+)(?:[\.\s]|$)
MacTail(pl, e) == IF e > 0 /\ SpDig(pl, e) # <<>> /\ VerTerm(pl, SpDigEnd(pl, e)) THEN SpDig(pl, e) ELSE <<>>
\* ^(?:Mac\s*OS\s*X|macOS|OS\s*X)\s+(\d+)(?:[\.\s]|$)
MacosMatch(pl) ==
  IF MacTail(pl, MacOsXEnd(pl, 1)) # <<>> THEN MacTail(pl, MacOsXEnd(pl, 1))
  ELSE IF MacTail(pl, IF MatchLit(pl, 1, Kw.macos) THEN 6 ELSE 0) # <<>> THEN MacTail(pl, 6)
  ELSE MacTail(pl, OsXEnd(pl, 1))

\* web_player branch of normalize_platform_to_group
WebPlayerGroup(p) ==
  LET rest == AfterFirst(p, " ")
      osToken == Strip(BeforeFirst(rest, ";"))
      osl == Lower(osToken)
      cleaned0 == Strip(SubParens(osToken))
      cleaned == IF cleaned0 = <<>> THEN Unknown ELSE cleaned0
  IN IF KwSearch(osl, Kw.windows) # <<>> THEN Lbl.webPlayer \o Lbl.windows \o KwSearch(osl, Kw.windows)
     ELSE IF MacSearch(osl) # <<>> THEN Lbl.webPlayer \o Lbl.macos \o MacSearch(osl)
     ELSE IF Contains(osl, Kw.linux) THEN Lbl.webPlayer \o Lbl.linux
     ELSE IF KwSearch(osl, Kw.ios) # <<>> THEN Lbl.webPlayer \o Lbl.ios \o KwSearch(osl, Kw.ios)
     ELSE IF KwSearch(osl, Kw.android) # <<>> THEN Lbl.webPlayer \o Lbl.android \o KwSearch(osl, Kw.android)
     ELSE Lbl.webPlayer \o Title(cleaned)

\* Partner branch of normalize_platform_to_group
PartnerGroup(p) ==
  LET pl == Lower(p)
      cleaned == Strip(SubParens(p))
  IN IF Contains(pl, Kw.tesla) THEN Lbl.tesla
     ELSE IF Contains(pl, Kw.roku) THEN Lbl.rokuTV
     ELSE IF Contains(pl, Kw.cast) THEN (IF Contains(pl, Kw.group) THEN Lbl.googleCastGroup ELSE Lbl.googleCast)
     ELSE IF cleaned = <<>> THEN Lbl.partner ELSE cleaned

\* JSON values of a record field: None, a string, an int (uniform record shape)
JNone == [tag |-> "none", s |-> <<>>, n |-> 0]
JStr(x) == [tag |-> "str", s |-> x, n |-> 0]
JInt(x) == [tag |-> "int", s |-> <<>>, n |-> x]
\* Python truthiness of a JSON value
Truthy(v) == (v.tag = "str" /\ v.s # <<>>) \/ (v.tag = "int" /\ v.n # 0)

\* p = platform.strip().rstrip(")"); p = re.sub(r"\s*\[[^\]]*\]\s*", " ", p).strip()
NormalizedP(s) == Strip(SubBrackets(RStripChar(Strip(s), ")")))

\* mutant: the fallback returns the cleaned string even when it is empty
NormalizePlatformToGroupNoUnknown(platform) ==
  IF ~Truthy(platform) THEN Unknown
  ELSE LET p == NormalizedP(platform.s)
           pl == Lower(p)
           fallback == Strip(SubParens(p))
       IN IF StartsWith(pl, Kw.webPlayerUnderscore) \/ StartsWith(pl, Kw.webPlayerSpace) THEN WebPlayerGroup(p)
          ELSE IF StartsWith(pl, Kw.partner) THEN PartnerGroup(p)
          ELSE IF StartsWith(pl, Kw.googleCast) THEN Lbl.googleCast
          ELSE IF WindowsMatch(pl) # <<>> THEN Lbl.windows \o WindowsMatch(pl)
          ELSE IF AndroidMatch(pl) # <<>> THEN Lbl.android \o AndroidMatch(pl)
          ELSE IF AndroidOsMatch(pl) # <<>> THEN Lbl.android \o AndroidOsMatch(pl)
          ELSE IF IosMatch(pl) # <<>> THEN Lbl.ios \o IosMatch(pl)
          ELSE IF MacosMatch(pl) # <<>> THEN Lbl.macos \o MacosMatch(pl)
          ELSE IF StartsWith(pl, Kw.linux) THEN Lbl.linux
          ELSE fallback

\* normalize_platform_to_group(platform) for platform None or a str.
\* The second "partner" block (lines 160-182) is unreachable: its guard equals the one at line 110.
NormalizePlatformToGroup(platform) ==
  IF ~Truthy(platform) THEN Unknown
  ELSE LET p == NormalizedP(platform.s)
           pl == Lower(p)
           fallback == Strip(SubParens(p))
       IN IF StartsWith(pl, Kw.webPlayerUnderscore) \/ StartsWith(pl, Kw.webPlayerSpace) THEN WebPlayerGroup(p)
          ELSE IF StartsWith(pl, Kw.partner) THEN PartnerGroup(p)
          ELSE IF StartsWith(pl, Kw.googleCast) THEN Lbl.googleCast
          ELSE IF WindowsMatch(pl) # <<>> THEN Lbl.windows \o WindowsMatch(pl)
          ELSE IF AndroidMatch(pl) # <<>> THEN Lbl.android \o AndroidMatch(pl)
          ELSE IF AndroidOsMatch(pl) # <<>> THEN Lbl.android \o AndroidOsMatch(pl)
          ELSE IF IosMatch(pl) # <<>> THEN Lbl.ios \o IosMatch(pl)
          ELSE IF MacosMatch(pl) # <<>> THEN Lbl.macos \o MacosMatch(pl)
          ELSE IF StartsWith(pl, Kw.linux) THEN Lbl.linux
          ELSE IF fallback = <<>> THEN Unknown ELSE fallback

\* ------------------------------------------------------------------
\* Shared record-processing helpers of the aggregation scripts
\* ------------------------------------------------------------------
\* EXCLUDED_PLATFORMS_EXACT (identical in history_top_by_year.py, count_bad_bunny_playlist_plays.py,
\* history_top_songs_by_platform_grouped.py)
ExcludedPlatformsExact ==
  {<<"i","O","S"," ","5",".","1",".","1"," ","(","i","P","o","d","4",",","1",")">>,
   <<"i","O","S"," ","7",".","1",".","1"," ","(","i","P","a","d","2",",","1",")">>,
   <<"i","O","S"," ","6",".","1",".","3"," ","(","i","P","o","d","4",",","1",")">>,
   <<"A","n","d","r","o","i","d"," ","O","S"," ","4",".","1",".","1"," ","A","P","I"," ","1","6"," ","(","s","a","m","s","u","n","g",","," ","S","G","H","-","I","7","4","7","M",")">>,
   <<"A","n","d","r","o","i","d"," ","O","S"," ","4",".","2",".","2"," ","A","P","I"," ","1","7"," ","(","T","C","T",","," ","A","L","C","A","T","E","L"," ","O","N","E"," ","T","O","U","C","H"," ","5","0","3","6","A",")">>,
   <<"A","n","d","r","o","i","d"," ","O","S"," ","5",".","0",".","2"," ","A","P","I"," ","2","1"," ","(","m","o","t","o","r","o","l","a",","," ","X","T","1","0","3","2",")">>,
   <<"A","n","d","r","o","i","d","-","t","a","b","l","e","t"," ","O","S"," ","5",".","0",".","2"," ","A","P","I"," ","2","1"," ","(","s","a","m","s","u","n","g",","," ","S","M","-","P","3","5","0",")">>,
   <<"W","i","n","d","o","w","s"," ","1","0"," ","(","1","0",".","0",".","1","0","5","8","6",";"," ","x","6","4",")">>}
ExclWin10 == <<"W","i","n","d","o","w","s"," ","1","0"," ","(","1","0",".","0",".","1","0","5","8","6",";"," ","x","6","4",")">>
BadBunny == <<"B","a","d"," ","B","u","n","n","y">>
UnknownArtist == <<"(","U","n","k","n","o","w","n"," ","A","r","t","i","s","t",")">>
UnknownAlbum == <<"(","U","n","k","n","o","w","n"," ","A","l","b","u","m",")">>
UnknownTrack == <<"(","U","n","k","n","o","w","n"," ","T","r","a","c","k",")">>
NamePrefix == <<"n","a","m","e",":">>
Dash == <<" ","-"," ">>
KeySep == <<"|","|">>

ExcludedGroups == {}
MinMsPlayed == 30000

EmptyMap == [x \in {} |-> 0]
\* d[k] = v
Put(f, k, v) == [x \in DOMAIN f \cup {k} |-> IF x = k THEN v ELSE f[x]]
\* d[k] += n on a defaultdict(int)
AddTo(f, k, n) == [x \in DOMAIN f \cup {k} |-> IF x = k THEN (IF k \in DOMAIN f THEN f[k] ELSE 0) + n ELSE f[x]]
\* mutant: a repeated key is counted once (de-duplication)
IncNoDuplicates(f, k) == Put(f, k, 1)
Inc(f, k) == AddTo(f, k, 1)
Range(sq) == {sq[i] : i \in DOMAIN sq}

\* (v or default) for a field holding None or a str
OrStr(v, default) == IF Truthy(v) THEN v.s ELSE default

DigitSeq == <<"0","1","2","3","4","5","6","7","8","9">>
RECURSIVE DigitsVal(_)
DigitsVal(s) ==
  IF s = <<>> THEN 0
  ELSE 10 * DigitsVal(SubSeq(s, 1, Len(s) - 1)) + (CHOOSE d \in 0..9 : DigitSeq[d + 1] = s[Len(s)])
\* the digits of an int() literal: digits, single underscores allowed between two digits
IsPyDigits(s) ==
  /\ Len(s) >= 1
  /\ s[1] \in DigitChars /\ s[Len(s)] \in DigitChars
  /\ \A i \in 1..Len(s) : s[i] \in DigitChars \cup {"_"}
  /\ \A i \in 1..(Len(s) - 1) : ~(s[i] = "_" /\ s[i + 1] = "_")
PyDigitsVal(s) == DigitsVal(SelectSeq(s, LAMBDA c : c # "_"))
\* the whitespace int() strips around its literal: str.isspace() except U+001C..U+001F,
\* on which int() raises
IntWhitespace == Whitespace \ {"", "", "", ""}
\* int(v or 0): [ok |-> FALSE] when int() raises
PyIntMs(v) ==
  LET w == IF Truthy(v) THEN v ELSE JInt(0)
      t == RStripSet(LStripSet(w.s, IntWhitespace), IntWhitespace)
  IN IF w.tag = "int" THEN [ok |-> TRUE, n |-> w.n]
     ELSE IF IsPyDigits(t) THEN [ok |-> TRUE, n |-> PyDigitsVal(t)]
     ELSE IF Len(t) >= 2 /\ t[1] \in {"+", "-"} /\ IsPyDigits(Tail(t))
          THEN [ok |-> TRUE, n |-> IF t[1] = "-" THEN 0 - PyDigitsVal(Tail(t)) ELSE PyDigitsVal(Tail(t))]
     ELSE [ok |-> FALSE, n |-> 0]
\* try: ms_played = int(row.get("ms_played") or 0) except Exception: ms_played = 0
MsOrZero(v) == IF PyIntMs(v).ok THEN PyIntMs(v).n ELSE 0

\* platform in EXCLUDED_PLATFORMS_EXACT
ExcludedPlatform(v) == v.tag = "str" /\ v.s \in ExcludedPlatformsExact

\* mutant: a timestamp shorter than 4 characters is used as its own year
ExtractYearNoLenCheck(ts) == IF ts = <<>> THEN Unknown ELSE SubSeq(ts, 1, IF Len(ts) < 4 THEN Len(ts) ELSE 4)

\* extract_year(ts)
ExtractYear(ts) == IF ts = <<>> \/ Len(ts) < 4 THEN Unknown ELSE SubSeq(ts, 1, 4)

\* build_track_key_and_name(row)
BuildTrackKeyAndName(r) ==
  LET display == IF Truthy(r.title) /\ Truthy(r.artist) THEN r.title.s \o Dash \o r.artist.s
                 ELSE IF Truthy(r.title) THEN r.title.s
                 ELSE IF Truthy(r.uri) THEN r.uri.s
                 ELSE UnknownTrack
  IN [key |-> IF Truthy(r.uri) THEN r.uri.s ELSE NamePrefix \o display, display |-> display]

\* _normalize_key(title, artist)
NormalizeKey(title, artist) == Lower(Strip(OrStr(title, <<>>))) \o KeySep \o Lower(Strip(OrStr(artist, <<>>)))

\* OLD_CRITERIA_ARTIST_NAMES
OldCriteriaArtistNames == {BadBunny}

\* Empty state of every script (before its loop runs)
EmptyY == [songYear |-> EmptyMap, artistYear |-> EmptyMap, globalSong |-> EmptyMap,
           globalArtist |-> EmptyMap, artistAlbum |-> EmptyMap, artistSong |-> EmptyMap,
           trackDisplay |-> EmptyMap]
EmptyG == [counts |-> EmptyMap, display |-> EmptyMap, order |-> <<>>]
EmptyP == [counts |-> EmptyMap, display |-> EmptyMap, order |-> <<>>]
EmptyF == [songMs |-> EmptyMap, songCount |-> EmptyMap, artistMs |-> EmptyMap,
           artistCount |-> EmptyMap, status |-> "running"]
EmptyB == [song |-> EmptyMap, old |-> EmptyMap, total |-> 0, byYear |-> EmptyMap]
EmptyCat == [uriToDisplay |-> EmptyMap, uriSet |-> {}, keyToDisplay |-> EmptyMap, displayToKey |-> EmptyMap]

\* variables of the pure-function specifications when they are not exercised
FnIdle == fnIn = <<>> /\ fnOut = <<>> /\ fnDone = FALSE

\* run variables when only the classifier is exercised
RunIdle ==
  /\ stream = <<>> /\ pcY = 1 /\ pcG = 1 /\ pcP = 1 /\ pcF = 1 /\ pcB = 1
  /\ catalog = <<>> /\ catPos = 1
  /\ yBk = EmptyY /\ gSt = EmptyG /\ pSt = EmptyP /\ fSt = EmptyF /\ bSt = EmptyB /\ bCat = EmptyCat

\* ------------------------------------------------------------------
\* Classifier specification: one call of normalize_platform_to_group
\* ------------------------------------------------------------------
OsFamilySpellings ==
  {[sp |-> <<"W","i","n","d","o","w","s">>, lbl |-> Lbl.windows],
   [sp |-> <<"W","I","N","D","O","W","S">>, lbl |-> Lbl.windows],
   [sp |-> <<"A","n","d","r","o","i","d">>, lbl |-> Lbl.android],
   [sp |-> <<"A","n","d","r","o","i","d"," ","O","S">>, lbl |-> Lbl.android],
   [sp |-> <<"A","n","d","r","o","i","d","-","t","a","b","l","e","t"," ","O","S">>, lbl |-> Lbl.android],
   [sp |-> <<"i","O","S">>, lbl |-> Lbl.ios],
   [sp |-> <<"M","a","c"," ","O","S"," ","X">>, lbl |-> Lbl.macos],
   [sp |-> <<"m","a","c","O","S">>, lbl |-> Lbl.macos],
   [sp |-> <<"O","S"," ","X">>, lbl |-> Lbl.macos]}
OsVersions ==
  {[v |-> <<"8",".","1",".","0">>, major |-> <<"8">>],
   [v |-> <<"1","0">>, major |-> <<"1","0">>],
   [v |-> <<"1","4",".","7",".","1">>, major |-> <<"1","4">>],
   [v |-> <<"6">>, major |-> <<"6">>]}
OsSuffixes == {<<>>, <<" ","(","P","i","x","e","l"," ","2",")">>, <<"(","P","i","x","e","l"," ","2",")">>, <<")">>, <<" ","[","a","r","m"," ","2","]">>, <<" ","A","P","I"," ","2","3">>}
PartnerInputs ==
  {<<"P","a","r","t","n","e","r"," ","t","e","s","l","a","_","m","o","d","e","l","3"," ","T","e","s","l","a",";","M","o","d","e","l"," ","3">>,
   <<"p","a","r","t","n","e","r"," ","r","o","k","u","_","t","v"," ","R","o","k","u",";","E","x","p","r","e","s","s">>,
   <<"P","a","r","t","n","e","r"," ","g","o","o","g","l","e","_","c","a","s","t","_","g","r","o","u","p"," ","G","o","o","g","l","e",";","C","a","s","t"," ","G","r","o","u","p">>,
   <<"P","a","r","t","n","e","r"," ","a","n","d","r","o","i","d","_","t","v"," ","G","o","o","g","l","e",";","C","a","s","t">>,
   <<"P","a","r","t","n","e","r"," ","s","o","n","o","s"," ","S","o","n","o","s",";","P","l","a","y",":","1">>,
   <<"P","a","r","t","n","e","r"," ","f","o","o"," ","(","b","a","r",")">>,
   <<"P","a","r","t","n","e","r"," ","f","o","o",")">>,
   <<"P","a","r","t","n","e","r"," ","[","x","]"," ","b","o","s","e"," ","B","o","s","e",";","H","o","m","e">>,
   <<"P","A","R","T","N","E","R"," ","T","E","S","L","A"," ","C","A","S","T">>,
   <<"G","o","o","g","l","e"," ","C","a","s","t"," ","(","C","h","r","o","m","e","c","a","s","t",")">>,
   <<"g","o","o","g","l","e"," ","c","a","s","t"," ","g","r","o","u","p">>,
   <<" "," ","G","o","o","g","l","e"," ","C","a","s","t"," "," ">>,
   <<"P","a","r","t","n","e","r"," ","(","x",")">>}
WebPlayerInputs ==
  {<<"w","e","b","_","p","l","a","y","e","r"," ","l","i","n","u","x"," ",";","f","i","r","e","f","o","x"," ","6","2">>,
   <<"w","e","b","_","p","l","a","y","e","r"," ","w","i","n","d","o","w","s"," ","1","0",";","c","h","r","o","m","e"," ","8","7">>,
   <<"w","e","b"," ","p","l","a","y","e","r"," ","f","o","o",";","b","a","r">>,
   <<"w","e","b","_","p","l","a","y","e","r",";","x">>,
   <<"w","e","b","_","p","l","a","y","e","r"," ","c","h","r","o","m","e","o","s"," ","(","x","8","6",")",";","c","h","r","o","m","e">>,
   <<"w","e","b","_","p","l","a","y","e","r"," ","m","a","c"," ","o","s"," ","x"," ","1","0"," ",";","s","a","f","a","r","i">>,
   <<"w","e","b","_","p","l","a","y","e","r"," ","m","a","c","o","s"," ","1","1",";","s","a","f","a","r","i">>,
   <<"w","e","b","_","p","l","a","y","e","r"," ","o","s","x"," ","1","0",";","s","a","f","a","r","i">>,
   <<"w","e","b","_","p","l","a","y","e","r"," ","i","o","s"," ","1","4",";","s","a","f","a","r","i">>,
   <<"w","e","b","_","p","l","a","y","e","r"," ","a","n","d","r","o","i","d"," ","9",";","c","h","r","o","m","e">>,
   <<"w","e","b","_","p","l","a","y","e","r"," ","x","_","b","o","x"," ","o","n","e",";","e","d","g","e">>,
   <<"w","e","b"," ","p","l","a","y","e","r"," ","W","I","N","D","O","W","S"," ","1","0",";","x">>,
   <<"W","e","b","_","P","l","a","y","e","r"," ","L","i","n","u","x"," ","x","8","6","_","6","4",";","f","i","r","e","f","o","x">>}
MiscInputs ==
  {<<>>,
   <<" "," "," ">>,
   <<")">>,
   <<"[","a","b","c","]">>,
   <<"S","o","m","e","D","e","v","i","c","e"," ","(","m","o","d","e","l",")">>,
   <<"L","i","n","u","x"," ","(","U","b","u","n","t","u"," ","2","2",".","0","4",")">>,
   <<"W","i","n","d","o","w","s"," ","1","0","x","6","4">>,
   <<"A","n","d","r","o","i","d"," ","8","a">>,
   <<"S","o","n","o","s",";","P","l","a","y",":","5">>}
ExAndroidOs == <<"A","n","d","r","o","i","d"," ","O","S"," ","6",".","0",".","1"," ","A","P","I"," ","2","3",")">>
ExAndroidOsOut == <<"A","n","d","r","o","i","d"," ","6">>
ExWindows == <<"W","i","n","d","o","w","s"," ","1","0"," ","(","U","n","k","n","o","w","n"," ","E","d",")">>
ExWindowsOut == <<"W","i","n","d","o","w","s"," ","1","0">>
ExWebLinux == <<"w","e","b","_","p","l","a","y","e","r"," ","l","i","n","u","x"," ",";","f","i","r","e","f","o","x"," ","6","2">>
ExWebLinuxOut == <<"W","e","b"," ","P","l","a","y","e","r"," ","L","i","n","u","x">>

OsForms == [fam : OsFamilySpellings, ver : OsVersions, suf : OsSuffixes]
OsFormStr(f) == f.fam.sp \o <<" ">> \o f.ver.v \o f.suf

ClassifyInputs ==
  {JNone} \cup {JStr(OsFormStr(f)) : f \in OsForms}
  \cup {JStr(x) : x \in PartnerInputs \cup WebPlayerInputs \cup MiscInputs \cup {ExAndroidOs, ExWindows, ExWebLinux}}

InitClassify ==
  /\ clsIn \in ClassifyInputs
  /\ clsOut = <<>>
  /\ clsDone = FALSE
  /\ FnIdle
  /\ RunIdle

\* group = normalize_platform_to_group(platform)
Classify ==
  /\ ~clsDone
  /\ clsOut' = NormalizePlatformToGroup(clsIn)
  /\ clsDone' = TRUE
  /\ UNCHANGED clsIn
  /\ UNCHANGED fnVars
  /\ UNCHANGED runVars

SpecClassify == InitClassify /\ [][Classify]_vars

\* C4: normalize_platform_to_group is total: every input (None, "", whitespace-only
\* included) yields a non-empty label; None and "" yield "Unknown"; and the four
\* documented examples map to "Android 6", "Windows 10", "Web Player Linux", "Unknown".
ClassifyTotal ==
  clsDone =>
    /\ clsOut # <<>>
    /\ (~Truthy(clsIn) => clsOut = Unknown)
    /\ (clsIn = JStr(ExAndroidOs) => clsOut = ExAndroidOsOut)
    /\ (clsIn = JStr(ExWindows) => clsOut = ExWindowsOut)
    /\ (clsIn = JStr(ExWebLinux) => clsOut = ExWebLinuxOut)
    /\ (clsIn = JStr(<<>>) => clsOut = Unknown)

ClassifyTotalWitness == clsDone /\ clsIn = JStr(<<" ", " ", " ">>)

\* The Partner fallback as the claim reads it: the input with surrounding whitespace,
\* [..] segments and (..) parentheticals removed, then trailing ")" artifacts trimmed.
ClaimCleanedPartner(x) == Strip(RStripChar(Strip(SubParens(Strip(SubBrackets(Strip(x))))), ")"))

\* C5: a string starting with "Partner" (any case) maps to "Tesla" / "Roku TV" /
\* "Google Cast Group" / "Google Cast" by case-insensitive vendor substring (in that
\* order), else to the string with its parentheticals removed (or "Partner" if empty);
\* a non-Partner string starting with "Google Cast" maps to "Google Cast".
PartnerRules ==
  (clsDone /\ Truthy(clsIn)) =>
    LET pl == Lower(NormalizedP(clsIn.s)) IN
    /\ StartsWith(pl, Kw.partner) =>
         clsOut = IF Contains(pl, Kw.tesla) THEN Lbl.tesla
                  ELSE IF Contains(pl, Kw.roku) THEN Lbl.rokuTV
                  ELSE IF Contains(pl, Kw.cast)
                       THEN (IF Contains(pl, Kw.group) THEN Lbl.googleCastGroup ELSE Lbl.googleCast)
                  ELSE IF ClaimCleanedPartner(clsIn.s) = <<>> THEN Lbl.partner
                  ELSE ClaimCleanedPartner(clsIn.s)
    /\ StartsWith(pl, Kw.googleCast) => clsOut = Lbl.googleCast

\* C6: a Windows / Android ("Android", "Android OS", "Android-tablet OS") / iOS /
\* macOS ("Mac OS X", "macOS", "OS X") spelling followed by a version, with or without
\* parenthetical or other detail after it, maps to "<Family> <major>", major being the
\* first run of digits after the keyword.
OsFamilyMajor ==
  \A f \in OsForms : (clsDone /\ clsIn = JStr(OsFormStr(f))) => clsOut = f.fam.lbl \o f.ver.major

\* The web-player OS token as the claim reads it: the text after the marker, before the first ';'.
ClaimWebToken(p) == Strip(BeforeFirst(SubSeq(p, Len(Kw.webPlayerUnderscore) + 1, Len(p)), ";"))

\* C7: for a string beginning with "web_player" or "web player", with OS token the
\* text before the first ';', the result is "Web Player Windows <major>",
\* "Web Player macOS <major>", "Web Player Linux", "Web Player iOS <major>" or
\* "Web Player Android <major>" when the token matches, else "Web Player " + the
\* title-cased token with its parentheticals removed.
WebPlayerRules ==
  (clsDone /\ Truthy(clsIn)) =>
    LET p == NormalizedP(clsIn.s)
        pl == Lower(p)
        tok == ClaimWebToken(p)
        tl == Lower(tok)
        cleaned == Strip(SubParens(tok))
    IN ((StartsWith(pl, Kw.webPlayerUnderscore) \/ StartsWith(pl, Kw.webPlayerSpace)) /\ cleaned # <<>>) =>
         clsOut = IF KwSearch(tl, Kw.windows) # <<>> THEN Lbl.webPlayer \o Lbl.windows \o KwSearch(tl, Kw.windows)
                  ELSE IF MacSearch(tl) # <<>> THEN Lbl.webPlayer \o Lbl.macos \o MacSearch(tl)
                  ELSE IF Contains(tl, Kw.linux) THEN Lbl.webPlayer \o Lbl.linux
                  ELSE IF KwSearch(tl, Kw.ios) # <<>> THEN Lbl.webPlayer \o Lbl.ios \o KwSearch(tl, Kw.ios)
                  ELSE IF KwSearch(tl, Kw.android) # <<>> THEN Lbl.webPlayer \o Lbl.android \o KwSearch(tl, Kw.android)
                  ELSE Lbl.webPlayer \o Title(cleaned)

\* ------------------------------------------------------------------
\* The scripts' loops over the history records
\* ------------------------------------------------------------------
\* history_top_by_year.main, loop body (lines 118-146)
ByYearStep ==
  /\ pcY <= Len(stream)
  /\ LET r == stream[pcY]
         year == ExtractYear(OrStr(r.ts, <<>>))
         kn == BuildTrackKeyAndName(r)
         artist == OrStr(r.artist, UnknownArtist)
         album == OrStr(r.album, UnknownAlbum)
     IN IF ExcludedPlatform(r.platform) \/ MsOrZero(r.ms) <= MinMsPlayed
        THEN UNCHANGED yBk
        ELSE yBk' = [songYear |-> Inc(yBk.songYear, <<year, kn.key>>),
                     artistYear |-> Inc(yBk.artistYear, <<year, artist>>),
                     globalSong |-> Inc(yBk.globalSong, kn.key),
                     globalArtist |-> Inc(yBk.globalArtist, artist),
                     artistAlbum |-> Inc(yBk.artistAlbum, <<artist, album>>),
                     artistSong |-> Inc(yBk.artistSong, <<artist, kn.key>>),
                     trackDisplay |-> Put(yBk.trackDisplay, kn.key, kn.display)]
  /\ pcY' = pcY + 1
  /\ UNCHANGED <<clsVars, fnVars, stream, pcG, pcP, pcF, pcB, catalog, catPos, gSt, pSt, fSt, bSt, bCat>>

\* history_top_songs_by_platform_grouped.main, loop body (lines 221-240)
GroupedStep ==
  /\ pcY > Len(stream) /\ pcG <= Len(stream)
  /\ LET r == stream[pcG]
         platform == IF Truthy(r.platform) THEN r.platform ELSE JStr(Unknown)
         group == NormalizePlatformToGroup(platform)
         kn == BuildTrackKeyAndName(r)
     IN IF platform.s \in ExcludedPlatformsExact \/ Lower(group) \in {Lower(g) : g \in ExcludedGroups}
        THEN UNCHANGED gSt
        ELSE gSt' = [counts |-> Inc(gSt.counts, <<group, kn.key>>),
                     display |-> Put(gSt.display, kn.key, kn.display),
                     order |-> IF group \in Range(gSt.order) THEN gSt.order ELSE Append(gSt.order, group)]
  /\ pcG' = pcG + 1
  /\ UNCHANGED <<clsVars, fnVars, stream, pcY, pcP, pcF, pcB, catalog, catPos, yBk, pSt, fSt, bSt, bCat>>

\* history_top_songs_by_platform.main, loop body (lines 82-90)
PlatformStep ==
  /\ pcG > Len(stream) /\ pcP <= Len(stream)
  /\ LET r == stream[pcP]
         platform == IF Truthy(r.platform) THEN r.platform.s ELSE Unknown
         kn == BuildTrackKeyAndName(r)
     IN pSt' = [counts |-> Inc(pSt.counts, <<platform, kn.key>>),
                display |-> Put(pSt.display, kn.key, kn.display),
                order |-> IF platform \in Range(pSt.order) THEN pSt.order ELSE Append(pSt.order, platform)]
  /\ pcP' = pcP + 1
  /\ UNCHANGED <<clsVars, fnVars, stream, pcY, pcG, pcF, pcB, catalog, catPos, yBk, gSt, fSt, bSt, bCat>>

\* strings of the modelled history records and playlist items
Txt == [Abc            |-> <<"a","b","c">>,
        N45000         |-> <<"4","5","0","0","0">>,
        T1             |-> <<"t">>,
        Al1            |-> <<"a","l">>,
        Ts2020         |-> <<"2","0","2","0","-","0","5">>,
        U1             |-> <<"u","1">>,
        U2             |-> <<"u","2">>,
        U3             |-> <<"u","3">>,
        A1             |-> <<"a","1">>,
        NameA          |-> <<"A">>,
        NameLowerA     |-> <<"a">>,
        NameB          |-> <<"B">>,
        ArtistX        |-> <<"X">>,
        NameSpA        |-> <<" ","a">>,
        TitleADashX    |-> <<"a"," ","-"," ","X">>,
        ArtistLowerX   |-> <<"x">>,
        Ts201          |-> <<"2","0","1">>,
        TsAbcd         |-> <<"a","b","c","d">>,
        NameAlpha      |-> <<"A","l","p","h","a">>,
        NameBeta       |-> <<"B","e","t","a">>,
        NameLowerAlpha |-> <<"a","l","p","h","a">>,
        Y2019          |-> <<"2","0","1","9">>,
        Y2020          |-> <<"2","0","2","0">>,
        Y2021          |-> <<"2","0","2","1">>]

\* The playlist snapshot of history_top_from_folder: uri -> list of artists
\* (fetch_playlist_tracks' uri_to_artists)
FolderPlaylist == [u \in {Txt.U1} |-> <<[id |-> JStr(Txt.A1), name |-> JStr(BadBunny)]>>]

\* artist_id = artist.get("id") or f"name:{artist.get('name') or 'Unknown'}"
ArtistId(a) == IF Truthy(a.id) THEN a.id.s ELSE NamePrefix \o OrStr(a.name, Unknown)
\* for artist in artists: artist_to_ms[artist_id] += ms
RECURSIVE AddArtists(_, _, _)
AddArtists(m, arts, n) == IF arts = <<>> THEN m ELSE AddArtists(AddTo(m, ArtistId(Head(arts)), n), Tail(arts), n)

\* history_top_from_folder.main, loop body (lines 104-119), when int(ms_played) succeeds
FolderStep ==
  /\ pcP > Len(stream) /\ pcF <= Len(stream) /\ fSt.status = "running"
  /\ LET r == stream[pcF]
         ms == PyIntMs(r.ms).n
     IN /\ PyIntMs(r.ms).ok
        /\ IF ~Truthy(r.uri) \/ r.uri.s \notin DOMAIN FolderPlaylist
           THEN UNCHANGED fSt
           ELSE fSt' = [fSt EXCEPT !.songMs = AddTo(@, r.uri.s, ms),
                                   !.songCount = Inc(@, r.uri.s),
                                   !.artistMs = AddArtists(@, FolderPlaylist[r.uri.s], ms),
                                   !.artistCount = AddArtists(@, FolderPlaylist[r.uri.s], 1)]
  /\ pcF' = pcF + 1
  /\ UNCHANGED <<clsVars, fnVars, stream, pcY, pcG, pcP, pcB, catalog, catPos, yBk, gSt, pSt, bSt, bCat>>

\* history_top_from_folder.main line 106: int(row.get("ms_played") or 0) raises and ends the run
FolderCrash ==
  /\ pcP > Len(stream) /\ pcF <= Len(stream) /\ fSt.status = "running"
  /\ ~PyIntMs(stream[pcF].ms).ok
  /\ fSt' = [fSt EXCEPT !.status = "crashed"]
  /\ UNCHANGED <<clsVars, fnVars, stream, pcY, pcG, pcP, pcF, pcB, catalog, catPos, yBk, gSt, pSt, bSt, bCat>>

FolderFinished == pcF > Len(stream) \/ fSt.status = "crashed"

\* mutant: the normalized-key index is overwritten by later entries (no "key not in" guard)
IndexPlaylistItemLastWriter(cat, it) ==
  LET name == IF Truthy(it.name) THEN it.name.s ELSE it.uri.s
      lead == IF it.artists # <<>> THEN it.artists[1] ELSE JStr(<<>>)
      display == IF Truthy(lead) THEN name \o Dash \o lead.s ELSE name
      key == NormalizeKey(JStr(name), lead)
  IN IF ~it.present \/ ~Truthy(it.uri) THEN cat
     ELSE [uriSet |-> cat.uriSet \cup {it.uri.s},
           uriToDisplay |-> Put(cat.uriToDisplay, it.uri.s, display),
           keyToDisplay |-> IF key # <<>> THEN Put(cat.keyToDisplay, key, display) ELSE cat.keyToDisplay,
           displayToKey |-> IF display # <<>> /\ key # <<>>
                            THEN Put(cat.displayToKey, display, key) ELSE cat.displayToKey]
\* fetch_playlist_tracks, body of "for it in items" (lines 85-102): the index after one item
IndexPlaylistItem(cat, it) ==
  LET name == IF Truthy(it.name) THEN it.name.s ELSE it.uri.s
      lead == IF it.artists # <<>> THEN it.artists[1] ELSE JStr(<<>>)
      display == IF Truthy(lead) THEN name \o Dash \o lead.s ELSE name
      key == NormalizeKey(JStr(name), lead)
  IN IF ~it.present \/ ~Truthy(it.uri) THEN cat
     ELSE [uriSet |-> cat.uriSet \cup {it.uri.s},
           uriToDisplay |-> Put(cat.uriToDisplay, it.uri.s, display),
           keyToDisplay |-> IF key # <<>> /\ key \notin DOMAIN cat.keyToDisplay
                            THEN Put(cat.keyToDisplay, key, display) ELSE cat.keyToDisplay,
           displayToKey |-> IF display # <<>> /\ key # <<>>
                            THEN Put(cat.displayToKey, display, key) ELSE cat.displayToKey]

\* count_bad_bunny_playlist_plays.fetch_playlist_tracks, loop over the playlist items (lines 81-105)
FetchPlaylistItem ==
  /\ FolderFinished /\ catPos <= Len(catalog)
  /\ bCat' = IndexPlaylistItem(bCat, catalog[catPos])
  /\ catPos' = catPos + 1
  /\ UNCHANGED <<clsVars, fnVars, stream, pcY, pcG, pcP, pcF, pcB, catalog, yBk, gSt, pSt, fSt, bSt>>

\* mutant: the normalized title||artist match is tried before the identifier
ResolveTrackTextFirst(r, cat) ==
  LET nk == NormalizeKey(r.title, r.artist)
      fbHit == nk # <<>> /\ nk \in DOMAIN cat.keyToDisplay
      uriHit == ~fbHit /\ Truthy(r.uri) /\ r.uri.s \in cat.uriSet
  IN [matched |-> uriHit \/ fbHit, fallback |-> fbHit, nk |-> nk,
      dk |-> IF fbHit THEN cat.keyToDisplay[nk]
             ELSE IF uriHit THEN (IF r.uri.s \in DOMAIN cat.uriToDisplay THEN cat.uriToDisplay[r.uri.s] ELSE r.uri.s)
             ELSE <<>>]
\* mutant: every record is reported as matched
ResolveTrackAlwaysMatched(r, cat) ==
  LET uriHit == Truthy(r.uri) /\ r.uri.s \in cat.uriSet
      nk == NormalizeKey(r.title, r.artist)
      fbHit == ~uriHit /\ nk # <<>> /\ nk \in DOMAIN cat.keyToDisplay
  IN [matched |-> TRUE, fallback |-> fbHit, nk |-> nk,
      dk |-> IF uriHit THEN (IF r.uri.s \in DOMAIN cat.uriToDisplay THEN cat.uriToDisplay[r.uri.s] ELSE r.uri.s)
             ELSE IF fbHit THEN cat.keyToDisplay[nk] ELSE <<>>]
\* main lines 177-195: identifier match first, else normalized title||artist fallback
ResolveTrack(r, cat) ==
  LET uriHit == Truthy(r.uri) /\ r.uri.s \in cat.uriSet
      nk == NormalizeKey(r.title, r.artist)
      fbHit == ~uriHit /\ nk # <<>> /\ nk \in DOMAIN cat.keyToDisplay
  IN [matched |-> uriHit \/ fbHit, fallback |-> fbHit, nk |-> nk,
      dk |-> IF uriHit THEN (IF r.uri.s \in DOMAIN cat.uriToDisplay THEN cat.uriToDisplay[r.uri.s] ELSE r.uri.s)
             ELSE IF fbHit THEN cat.keyToDisplay[nk] ELSE <<>>]

\* mutant: old-criteria plays are counted on every qualifying play by the lead artist,
\* matched to the playlist or not (keyed by uri, else title, when unmatched)
PlaylistScanStepOldUnmatched ==
  /\ FolderFinished /\ catPos > Len(catalog) /\ pcB <= Len(stream)
  /\ LET r == stream[pcB]
         res == ResolveTrack(r, bCat)
         dk == IF res.matched THEN res.dk ELSE OrStr(r.uri, OrStr(r.title, <<>>))
         year == ExtractYear(OrStr(r.ts, <<>>))
         lead == Strip(OrStr(r.artist, <<>>))
         isOld == lead # <<>> /\ \E n \in OldCriteriaArtistNames : Lower(lead) = Lower(n)
     IN IF ExcludedPlatform(r.platform) \/ MsOrZero(r.ms) <= MinMsPlayed
        THEN UNCHANGED <<bSt, bCat>>
        ELSE IF ~res.matched
        THEN /\ bSt' = [bSt EXCEPT !.old = IF isOld /\ dk # <<>> THEN Inc(@, dk) ELSE @]
             /\ UNCHANGED bCat
        ELSE /\ bCat' = IF res.fallback /\ dk # <<>> /\ dk \notin DOMAIN bCat.displayToKey
                        THEN [bCat EXCEPT !.displayToKey = Put(@, dk, res.nk)] ELSE bCat
             /\ bSt' = [song |-> Inc(bSt.song, dk),
                        total |-> bSt.total + 1,
                        byYear |-> Inc(bSt.byYear, <<year, dk>>),
                        old |-> IF isOld /\ dk # <<>> THEN Inc(bSt.old, dk) ELSE bSt.old]
  /\ pcB' = pcB + 1
  /\ UNCHANGED <<clsVars, fnVars, stream, pcY, pcG, pcP, pcF, catalog, catPos, yBk, gSt, pSt, fSt>>

\* count_bad_bunny_playlist_plays.main, loop body (lines 165-209)
PlaylistScanStep ==
  /\ FolderFinished /\ catPos > Len(catalog) /\ pcB <= Len(stream)
  /\ LET r == stream[pcB]
         res == ResolveTrack(r, bCat)
         dk == res.dk
         year == ExtractYear(OrStr(r.ts, <<>>))
         lead == Strip(OrStr(r.artist, <<>>))
         isOld == lead # <<>> /\ \E n \in OldCriteriaArtistNames : Lower(lead) = Lower(n)
     IN IF ExcludedPlatform(r.platform) \/ MsOrZero(r.ms) <= MinMsPlayed \/ ~res.matched
        THEN UNCHANGED <<bSt, bCat>>
        ELSE /\ bCat' = IF res.fallback /\ dk # <<>> /\ dk \notin DOMAIN bCat.displayToKey
                        THEN [bCat EXCEPT !.displayToKey = Put(@, dk, res.nk)] ELSE bCat
             /\ bSt' = [song |-> Inc(bSt.song, dk),
                        total |-> bSt.total + 1,
                        byYear |-> Inc(bSt.byYear, <<year, dk>>),
                        old |-> IF isOld /\ dk # <<>> THEN Inc(bSt.old, dk) ELSE bSt.old]
  /\ pcB' = pcB + 1
  /\ UNCHANGED <<clsVars, fnVars, stream, pcY, pcG, pcP, pcF, catalog, catPos, yBk, gSt, pSt, fSt>>

\* ------------------------------------------------------------------
\* Filter specification: every script over the same bounded record stream
\* ------------------------------------------------------------------
MaxRecords == 2

FilterPlatforms == {JNone, JStr(ExclWin10), JStr(Lower(ExclWin10))}
FilterMs == {JNone, JStr(Txt.Abc), JInt(0), JInt(MinMsPlayed), JInt(MinMsPlayed + 1), JStr(Txt.N45000)}
FilterRecords ==
  [platform : FilterPlatforms, ms : FilterMs, uri : {JNone, JStr(Txt.U1)},
   title : {JStr(Txt.T1)}, artist : {JStr(BadBunny)}, album : {JStr(Txt.Al1)}, ts : {JStr(Txt.Ts2020)}]
\* the Bad Bunny playlist: one track Txt.U1 "t" by Bad Bunny
FilterCatalog == <<[present |-> TRUE, uri |-> JStr(Txt.U1), name |-> JStr(Txt.T1), artists |-> <<JStr(BadBunny)>>]>>

InitFilter ==
  /\ stream \in UNION {[1..n -> FilterRecords] : n \in 0..MaxRecords}
  /\ pcY = 1 /\ pcG = 1 /\ pcP = 1 /\ pcF = 1 /\ pcB = 1
  /\ catalog = FilterCatalog /\ catPos = 1
  /\ yBk = EmptyY /\ gSt = EmptyG /\ pSt = EmptyP /\ fSt = EmptyF /\ bSt = EmptyB /\ bCat = EmptyCat
  /\ clsIn = JNone /\ clsOut = <<>> /\ clsDone = FALSE
  /\ FnIdle

NextFilter ==
  \/ ByYearStep
  \/ GroupedStep
  \/ PlatformStep
  \/ FolderStep
  \/ FolderCrash
  \/ FetchPlaylistItem
  \/ PlaylistScanStep

SpecFilter == InitFilter /\ [][NextFilter]_vars

\* the counting buckets of each script
YBuckets == <<yBk.songYear, yBk.artistYear, yBk.globalSong, yBk.globalArtist, yBk.artistAlbum, yBk.artistSong>>
GBuckets == gSt.counts
PBuckets == pSt.counts
FBuckets == <<fSt.songMs, fSt.songCount, fSt.artistMs, fSt.artistCount>>
BBuckets == <<bSt.song, bSt.old, bSt.byYear, bSt.total>>

\* C1: a record whose ms_played is an integer <= 30000 contributes to no bucket of any
\* aggregation script: whenever a script's loop consumes it, the script's buckets are unchanged.
ShortPlaysContributeNothing ==
  [][ /\ (pcY' = pcY + 1 /\ stream[pcY].ms.tag = "int" /\ stream[pcY].ms.n <= 30000) => YBuckets' = YBuckets
      /\ (pcG' = pcG + 1 /\ stream[pcG].ms.tag = "int" /\ stream[pcG].ms.n <= 30000) => GBuckets' = GBuckets
      /\ (pcP' = pcP + 1 /\ stream[pcP].ms.tag = "int" /\ stream[pcP].ms.n <= 30000) => PBuckets' = PBuckets
      /\ (pcF' = pcF + 1 /\ stream[pcF].ms.tag = "int" /\ stream[pcF].ms.n <= 30000) => FBuckets' = FBuckets
      /\ (pcB' = pcB + 1 /\ stream[pcB].ms.tag = "int" /\ stream[pcB].ms.n <= 30000) => BBuckets' = BBuckets
    ]_vars

\* C2: a record whose raw platform is exactly a member of the exclusion set is excluded
\* from every bucket whatever its ms_played; a platform differing from a member only in
\* case is not excluded (a qualifying record with it is counted by history_top_by_year).
ExactPlatformExcluded ==
  [][ /\ (pcY' = pcY + 1 /\ ExcludedPlatform(stream[pcY].platform)) => YBuckets' = YBuckets
      /\ (pcG' = pcG + 1 /\ ExcludedPlatform(stream[pcG].platform)) => GBuckets' = GBuckets
      /\ (pcP' = pcP + 1 /\ ExcludedPlatform(stream[pcP].platform)) => PBuckets' = PBuckets
      /\ (pcF' = pcF + 1 /\ ExcludedPlatform(stream[pcF].platform)) => FBuckets' = FBuckets
      /\ (pcB' = pcB + 1 /\ ExcludedPlatform(stream[pcB].platform)) => BBuckets' = BBuckets
      /\ (pcY' = pcY + 1 /\ stream[pcY].platform.tag = "str" /\ ~ExcludedPlatform(stream[pcY].platform)
          /\ Lower(stream[pcY].platform.s) \in {Lower(e) : e \in ExcludedPlatformsExact}
          /\ MsOrZero(stream[pcY].ms) > 30000) => YBuckets' # YBuckets
    ]_vars

\* ms_played absent/null or not convertible by int()
BadMs(r) == r.ms.tag = "none" \/ ~PyIntMs(r.ms).ok

\* C3: a record whose ms_played is missing, null or not convertible to an integer is
\* treated as 0: every script skips it (buckets unchanged) and goes on with the next
\* record without an error.
BadDurationSkipped ==
  [][ /\ (pcY' = pcY + 1 /\ BadMs(stream[pcY])) => YBuckets' = YBuckets
      /\ (pcG' = pcG + 1 /\ BadMs(stream[pcG])) => GBuckets' = GBuckets
      /\ (pcP' = pcP + 1 /\ BadMs(stream[pcP])) => PBuckets' = PBuckets
      /\ (pcB' = pcB + 1 /\ BadMs(stream[pcB])) => BBuckets' = BBuckets
      /\ (fSt.status = "running" /\ pcF <= Len(stream) /\ BadMs(stream[pcF]) /\ <<pcF, fSt>>' # <<pcF, fSt>>)
           => (pcF' = pcF + 1 /\ FBuckets' = FBuckets /\ fSt'.status = "running")
    ]_vars

\* ------------------------------------------------------------------
\* Catalog specification: fetch_playlist_tracks then the scan of
\* count_bad_bunny_playlist_plays over a bounded record stream
\* ------------------------------------------------------------------
MaxCatalog == 2
MaxScan == 2

\* playlist items: track uri, track name, lead artist X
CatalogItems ==
  [present : {TRUE}, uri : {JStr(Txt.U1), JStr(Txt.U2)}, name : {JStr(Txt.NameA), JStr(Txt.NameLowerA), JStr(Txt.NameB)},
   artists : {<<JStr(Txt.ArtistX)>>}]
\* qualifying history records: uri in the playlist or not, title matching an item or not
ScanRecords ==
  [platform : {JNone}, ms : {JInt(MinMsPlayed + 1)}, uri : {JNone, JStr(Txt.U1), JStr(Txt.U3)},
   title : {JNone, JStr(Txt.NameA), JStr(Txt.NameB)}, artist : {JStr(Txt.ArtistX)}, album : {JStr(Txt.Al1)}, ts : {JStr(Txt.Ts2020)}]

InitCatalog ==
  /\ catalog \in UNION {[1..n -> CatalogItems] : n \in 0..MaxCatalog}
  /\ catPos = 1
  /\ stream \in UNION {[1..n -> ScanRecords] : n \in 0..MaxScan}
  \* the other scripts are not run in this specification
  /\ pcY = Len(stream) + 1 /\ pcG = Len(stream) + 1 /\ pcP = Len(stream) + 1 /\ pcF = Len(stream) + 1
  /\ pcB = 1
  /\ yBk = EmptyY /\ gSt = EmptyG /\ pSt = EmptyP /\ fSt = EmptyF /\ bSt = EmptyB /\ bCat = EmptyCat
  /\ clsIn = JNone /\ clsOut = <<>> /\ clsDone = FALSE
  /\ FnIdle

NextCatalog ==
  \/ FetchPlaylistItem
  \/ PlaylistScanStep

SpecCatalog == InitCatalog /\ [][NextCatalog]_vars

\* count in a defaultdict(int)
Cnt(f, k) == IF k \in DOMAIN f THEN f[k] ELSE 0
\* the record consumed by a scan step qualifies (platform and duration filter)
Qualifies(r) == ~ExcludedPlatform(r.platform) /\ MsOrZero(r.ms) > 30000
\* r's identifier is in the catalog and its normalized title||artist resolves to another display
IdAndTextDisagree(r, cat) ==
  /\ Truthy(r.uri) /\ r.uri.s \in cat.uriSet
  /\ NormalizeKey(r.title, r.artist) \in DOMAIN cat.keyToDisplay
  /\ cat.keyToDisplay[NormalizeKey(r.title, r.artist)] # cat.uriToDisplay[r.uri.s]

\* C8: a qualifying record whose identifier resolves to entry A while its normalized
\* title||artist resolves to a different entry B is counted under A's display and
\* never under B's (song_counts, per-year and old-criteria tallies).
IdentifierWins ==
  [][ (pcB' = pcB + 1 /\ Qualifies(stream[pcB]) /\ IdAndTextDisagree(stream[pcB], bCat)) =>
        LET r == stream[pcB]
            a == bCat.uriToDisplay[r.uri.s]
            b == bCat.keyToDisplay[NormalizeKey(r.title, r.artist)]
            y == ExtractYear(OrStr(r.ts, <<>>))
        IN /\ Cnt(bSt'.song, a) = Cnt(bSt.song, a) + 1
           /\ Cnt(bSt'.song, b) = Cnt(bSt.song, b)
           /\ Cnt(bSt'.byYear, <<y, b>>) = Cnt(bSt.byYear, <<y, b>>)
           /\ Cnt(bSt'.old, b) = Cnt(bSt.old, b)
    ]_vars

IdentifierWinsWitness ==
  /\ catPos > Len(catalog)
  /\ \E i \in 1..(pcB - 1) : IdAndTextDisagree(stream[i], bCat)

\* C9: a qualifying record without identifier match resolves by its normalized
\* title||artist key only if that key is non-empty and in the catalog; then it is counted
\* under the matched display and display_to_key gains that display only if absent (an
\* existing entry is kept). A record matching neither way changes no catalog-scoped bucket.
FallbackResolution ==
  [][ (pcB' = pcB + 1 /\ Qualifies(stream[pcB])
       /\ ~(Truthy(stream[pcB].uri) /\ stream[pcB].uri.s \in bCat.uriSet)) =>
        LET r == stream[pcB]
            nk == NormalizeKey(r.title, r.artist)
        IN IF nk # <<>> /\ nk \in DOMAIN bCat.keyToDisplay
           THEN LET d == bCat.keyToDisplay[nk] IN
                /\ Cnt(bSt'.song, d) = Cnt(bSt.song, d) + 1
                /\ bCat'.displayToKey = IF d \in DOMAIN bCat.displayToKey
                                        THEN bCat.displayToKey ELSE Put(bCat.displayToKey, d, nk)
           ELSE /\ bSt'.song = bSt.song /\ bSt'.byYear = bSt.byYear /\ bSt'.old = bSt.old
                /\ bCat' = bCat
    ]_vars

FallbackResolutionWitness ==
  /\ catPos > Len(catalog)
  /\ \E i \in 1..(pcB - 1) :
       /\ ~(Truthy(stream[i].uri) /\ stream[i].uri.s \in bCat.uriSet)
       /\ NormalizeKey(stream[i].title, stream[i].artist) \in DOMAIN bCat.keyToDisplay
  /\ \E i \in 1..(pcB - 1) :
       /\ ~(Truthy(stream[i].uri) /\ stream[i].uri.s \in bCat.uriSet)
       /\ NormalizeKey(stream[i].title, stream[i].artist) \notin DOMAIN bCat.keyToDisplay

\* normalized key of a playlist item, as fetch_playlist_tracks computes it
ItemKey(it) ==
  NormalizeKey(JStr(IF Truthy(it.name) THEN it.name.s ELSE it.uri.s),
               IF it.artists # <<>> THEN it.artists[1] ELSE JStr(<<>>))

\* C10: when a later catalog entry reduces to a normalized key already indexed, the
\* key -> display mapping keeps the first entry's display and no display -> key mapping
\* to that key is replaced.
CatalogFirstWriterWins ==
  [][ (catPos' = catPos + 1 /\ catalog[catPos].present /\ Truthy(catalog[catPos].uri)
       /\ ItemKey(catalog[catPos]) \in DOMAIN bCat.keyToDisplay) =>
        /\ bCat'.keyToDisplay = bCat.keyToDisplay
        /\ \A d \in DOMAIN bCat.displayToKey :
             bCat.displayToKey[d] = ItemKey(catalog[catPos]) => bCat'.displayToKey[d] = bCat.displayToKey[d]
    ]_vars

CatalogFirstWriterWinsWitness ==
  /\ catPos > Len(catalog)
  /\ \E i, j \in 1..Len(catalog) :
       i < j /\ ItemKey(catalog[i]) = ItemKey(catalog[j]) /\ catalog[i].name # catalog[j].name

\* ------------------------------------------------------------------
\* Track-key specification: build_track_key_and_name on two records
\* ------------------------------------------------------------------
KeyRecords ==
  [uri : {JNone, JStr(<<>>), JStr(Txt.U1), JStr(Txt.U2)},
   title : {JNone, JStr(Txt.NameA), JStr(Txt.NameLowerA), JStr(Txt.NameSpA), JStr(Txt.TitleADashX)},
   artist : {JNone, JStr(Txt.ArtistX), JStr(Txt.ArtistLowerX)}]

InitTrackKey ==
  /\ fnIn \in KeyRecords \X KeyRecords
  /\ fnOut = <<>>
  /\ fnDone = FALSE
  /\ clsIn = JNone /\ clsOut = <<>> /\ clsDone = FALSE
  /\ RunIdle

\* song_key, song_name = build_track_key_and_name(row), for each of the two rows
TrackKeys ==
  /\ ~fnDone
  /\ fnOut' = <<BuildTrackKeyAndName(fnIn[1]).key, BuildTrackKeyAndName(fnIn[2]).key>>
  /\ fnDone' = TRUE
  /\ UNCHANGED fnIn
  /\ UNCHANGED <<clsVars, runVars>>

SpecTrackKey == InitTrackKey /\ [][TrackKeys]_vars

\* C11: two records with the same non-empty identifier get the same track key whatever
\* their text; two records without identifier get the same key iff
\* lowercase(trim(title))||lowercase(trim(artist)) is equal for both.
CanonicalKey ==
  fnDone =>
    LET r1 == fnIn[1]
        r2 == fnIn[2]
    IN /\ (Truthy(r1.uri) /\ Truthy(r2.uri) /\ r1.uri.s = r2.uri.s) => fnOut[1] = fnOut[2]
       /\ (~Truthy(r1.uri) /\ ~Truthy(r2.uri)) =>
            (fnOut[1] = fnOut[2] <=> NormalizeKey(r1.title, r1.artist) = NormalizeKey(r2.title, r2.artist))

\* ------------------------------------------------------------------
\* Record specification: history_top_by_year and the two platform scripts
\* over a bounded stream of qualifying records with varied text fields
\* ------------------------------------------------------------------
MaxStream == 2

RecordFields ==
  [platform : {JNone}, ms : {JInt(MinMsPlayed + 1)}, uri : {JNone, JStr(Txt.U1)},
   title : {JStr(Txt.NameA)}, artist : {JNone, JStr(Txt.ArtistX)}, album : {JNone, JStr(Txt.Al1)},
   ts : {JNone, JStr(Txt.Ts201), JStr(Txt.Ts2020), JStr(Txt.TsAbcd)}]

InitRecords ==
  /\ stream \in UNION {[1..n -> RecordFields] : n \in 0..MaxStream}
  /\ pcY = 1 /\ pcG = 1 /\ pcP = 1
  \* history_top_from_folder and count_bad_bunny_playlist_plays are not run here
  /\ pcF = Len(stream) + 1 /\ pcB = Len(stream) + 1
  /\ catalog = <<>> /\ catPos = 1
  /\ yBk = EmptyY /\ gSt = EmptyG /\ pSt = EmptyP /\ fSt = EmptyF /\ bSt = EmptyB /\ bCat = EmptyCat
  /\ clsIn = JNone /\ clsOut = <<>> /\ clsDone = FALSE
  /\ FnIdle

NextRecords ==
  \/ ByYearStep
  \/ GroupedStep
  \/ PlatformStep

SpecRecords == InitRecords /\ [][NextRecords]_vars

\* C12: once a track key has a display name, later records with that key never change
\* it, in any script's track_display.
DisplayStable ==
  [][ /\ \A k \in DOMAIN yBk.trackDisplay : yBk'.trackDisplay[k] = yBk.trackDisplay[k]
      /\ \A k \in DOMAIN gSt.display : gSt'.display[k] = gSt.display[k]
      /\ \A k \in DOMAIN pSt.display : pSt'.display[k] = pSt.display[k]
    ]_vars

\* new bucket map g is old map f with exactly the entry k incremented by one
IncrementedOnce(f, g, k) ==
  /\ DOMAIN g = DOMAIN f \cup {k}
  /\ g[k] = Cnt(f, k) + 1
  /\ \A x \in DOMAIN f \ {k} : g[x] = f[x]

\* C13: each qualifying record increments exactly one entry of each of the six
\* dimensions; its year is ts[:4], or "Unknown" when ts is absent or shorter than
\* 4 characters; a missing artist or album is replaced by its sentinel.
DimensionUpdate ==
  [][ (pcY' = pcY + 1 /\ Qualifies(stream[pcY])) =>
        LET r == stream[pcY]
            year == IF ~Truthy(r.ts) \/ Len(r.ts.s) < 4 THEN Unknown ELSE SubSeq(r.ts.s, 1, 4)
            artist == IF Truthy(r.artist) THEN r.artist.s ELSE UnknownArtist
            album == IF Truthy(r.album) THEN r.album.s ELSE UnknownAlbum
            k == BuildTrackKeyAndName(r).key
        IN /\ IncrementedOnce(yBk.songYear, yBk'.songYear, <<year, k>>)
           /\ IncrementedOnce(yBk.artistYear, yBk'.artistYear, <<year, artist>>)
           /\ IncrementedOnce(yBk.globalSong, yBk'.globalSong, k)
           /\ IncrementedOnce(yBk.globalArtist, yBk'.globalArtist, artist)
           /\ IncrementedOnce(yBk.artistAlbum, yBk'.artistAlbum, <<artist, album>>)
           /\ IncrementedOnce(yBk.artistSong, yBk'.artistSong, <<artist, k>>)
    ]_vars

\* a record with a short timestamp, no artist and no album, and a record with a
\* non-date 4-character timestamp, have both been counted
DimensionUpdateWitness ==
  /\ \E i \in 1..(pcY - 1) :
       stream[i].ts = JStr(Txt.Ts201) /\ stream[i].artist = JNone /\ stream[i].album = JNone
  /\ \E i \in 1..(pcY - 1) : stream[i].ts = JStr(Txt.TsAbcd)
  /\ <<Unknown, UnknownArtist>> \in DOMAIN yBk.artistYear
  /\ \E k \in DOMAIN yBk.songYear : k[1] = Txt.TsAbcd

\* ------------------------------------------------------------------
\* Ranking specification: the top-N sorts applied to one bucket
\* ------------------------------------------------------------------
\* Python floats computed by the statistics are modelled as exact rationals
\* [num, den] with den > 0.
RECURSIVE Gcd(_, _)
Gcd(a, b) == IF b = 0 THEN a ELSE Gcd(b, a % b)
\* a / b in lowest terms (b > 0)
Rat(a, b) == LET d == Gcd(IF a < 0 THEN -a ELSE a, b) IN [num |-> a \div d, den |-> b \div d]
RatLe(x, y) == x.num * y.den <= y.num * x.den
RatEq(x, y) == x.num * y.den = y.num * x.den
RatSub(x, y) == Rat(x.num * y.den - y.num * x.den, x.den * y.den)
RatMul(x, y) == Rat(x.num * y.num, x.den * y.den)
RatMax(x, y) == IF RatLe(x, y) THEN y ELSE x
RatMin(x, y) == IF RatLe(x, y) THEN x ELSE y
Zero == Rat(0, 1)
One == Rat(1, 1)

\* characters in code-point order (Python compares str by code point)
\* the alphabet in code point order (see UpperLetters for the invisible characters)
CodePointOrder ==
 <<
  NullChar,"","","","","","","","","\t","\n","","\f","\r","","","","","","",
  "","","","","","","","","","","",""," ","!","\"","#","$","%","&","'",
  "(",")","*","+",",","-",".","/","0","1","2","3","4","5","6","7","8","9",":",";",
  "<","=",">","?","@","A","B","C","D","E","F","G","H","I","J","K","L","M","N","O",
  "P","Q","R","S","T","U","V","W","X","Y","Z","[","\\","]","^","_",GraveAccent,"a","b","c",
  "d","e","f","g","h","i","j","k","l","m","n","o","p","q","r","s","t","u","v","w",
  "x","y","z","{","|","}","~","","","","","","","","","","","","","",
  "","","","","","","","","","","","","","","","","","","","",
  " ","¡","¢","£","¤","¥","¦","§","¨","©","ª","«","¬","­","®","¯","°","±","²","³",
  "´","µ","¶","·","¸","¹","º","»","¼","½","¾","¿","À","Á","Â","Ã","Ä","Å","Æ","Ç",
  "È","É","Ê","Ë","Ì","Í","Î","Ï","Ð","Ñ","Ò","Ó","Ô","Õ","Ö","×","Ø","Ù","Ú","Û",
  "Ü","Ý","Þ","ß","à","á","â","ã","ä","å","æ","ç","è","é","ê","ë","ì","í","î","ï",
  "ð","ñ","ò","ó","ô","õ","ö","÷","ø","ù","ú","û","ü","ý","þ","ÿ",CapitalYDiaeresis,"Μ","μ"," ">>
OrdMap == [c \in {CodePointOrder[i] : i \in 1..Len(CodePointOrder)} |->
             CHOOSE i \in 1..Len(CodePointOrder) : CodePointOrder[i] = c]
Ord(c) == OrdMap[c]

\* s < t for Python strings
RECURSIVE StrLess(_, _)
StrLess(s, t) ==
  IF s = <<>> THEN t # <<>>
  ELSE IF t = <<>> THEN FALSE
  ELSE IF Head(s) # Head(t) THEN Ord(Head(s)) < Ord(Head(t))
  ELSE StrLess(Tail(s), Tail(t))

\* key=lambda kv: (-kv[1], track_display.get(kv[0], kv[0]))
CountThenNameBefore(a, b) == a.cnt > b.cnt \/ (a.cnt = b.cnt /\ StrLess(a.disp, b.disp))
\* key=lambda x: -x[1]  (history_top_from_folder)
MsOnlyBefore(a, b) == a.cnt > b.cnt
\* key(a) < key(b) for the sort key named by kind
\* mutant: the years-active tie-break is left out
ConsistencyBeforeNoYears(a, b) ==
  \/ a.score > b.score
  \/ a.score = b.score /\ a.total > b.total
  \/ a.score = b.score /\ a.total = b.total /\ StrLess(a.disp, b.disp)
\* key=lambda x: (-x[1], -x[2], -x[3], track_display.get(x[0], x[0]))  (score, years_active, total)
ConsistencyBefore(a, b) ==
  \/ a.score > b.score
  \/ a.score = b.score /\ a.yearsActive > b.yearsActive
  \/ a.score = b.score /\ a.yearsActive = b.yearsActive /\ a.total > b.total
  \/ a.score = b.score /\ a.yearsActive = b.yearsActive /\ a.total = b.total /\ StrLess(a.disp, b.disp)
\* Comparing two flatness floats. A row carries its exact flatness (flat) and ulp, the
\* rounding of the float the code computes for it: two artists with the same sorted
\* positive counts get the same float, whose order against an exactly equal value of
\* other counts is given by ulp (-1 below, 0 equal, 1 above). On the modelled counts,
\* distinct exact values differ by far more than the rounding error (about 1e-15), so
\* they keep their order.
FloatLt(a, b) == (RatLe(a.flat, b.flat) /\ ~RatEq(a.flat, b.flat)) \/ (RatEq(a.flat, b.flat) /\ a.ulp < b.ulp)
FloatEq(a, b) == RatEq(a.flat, b.flat) /\ a.ulp = b.ulp
\* key=lambda x: (-x[1], -x[2], -x[3], x[0])  (flatness, num_songs, total, artist)
FlatTopBefore(a, b) ==
  \/ FloatLt(b, a)
  \/ FloatEq(a, b) /\ a.num > b.num
  \/ FloatEq(a, b) /\ a.num = b.num /\ a.total > b.total
  \/ FloatEq(a, b) /\ a.num = b.num /\ a.total = b.total /\ StrLess(a.name, b.name)
\* key=lambda x: (x[1], -x[2], -x[3], x[0])
FlatBottomBefore(a, b) ==
  \/ FloatLt(a, b)
  \/ FloatEq(a, b) /\ a.num > b.num
  \/ FloatEq(a, b) /\ a.num = b.num /\ a.total > b.total
  \/ FloatEq(a, b) /\ a.num = b.num /\ a.total = b.total /\ StrLess(a.name, b.name)
Before(kind, a, b) ==
  CASE kind = "countName" -> CountThenNameBefore(a, b)
    [] kind = "msOnly" -> MsOnlyBefore(a, b)
    [] kind = "intAsc" -> a < b
    [] kind = "consistency" -> ConsistencyBefore(a, b)
    [] kind = "flatTop" -> FlatTopBefore(a, b)
    [] kind = "flatBottom" -> FlatBottomBefore(a, b)

\* list.sort / sorted: stable sort by the key named by kind (x, taken from the
\* front, goes before every element whose key is not smaller)
RECURSIVE InsertStable(_, _, _)
InsertStable(kind, x, sorted) ==
  IF sorted = <<>> THEN <<x>>
  ELSE IF ~Before(kind, Head(sorted), x) THEN <<x>> \o sorted
  ELSE <<Head(sorted)>> \o InsertStable(kind, x, Tail(sorted))
RECURSIVE SortStable(_, _)
SortStable(kind, sq) ==
  IF sq = <<>> THEN <<>> ELSE InsertStable(kind, Head(sq), SortStable(kind, Tail(sq)))

SortCountThenName(items) == SortStable("countName", items)
SortMsOnly(items) == SortStable("msOnly", items)
\* arr.sort() on a list of ints
SortAsc(arr) == SortStable("intAsc", arr)

MaxItems == 3
\* one bucket's items in dict insertion order: display name (or playlist name) and count (or ms)
RankItems == [disp : {Txt.NameAlpha, Txt.NameBeta, Txt.NameLowerAlpha}, cnt : {3, 5}]

InitRank ==
  /\ fnIn \in UNION {[1..n -> RankItems] : n \in 0..MaxItems}
  /\ fnOut = <<<<>>, <<>>>>
  /\ fnDone = FALSE
  /\ clsIn = JNone /\ clsOut = <<>> /\ clsDone = FALSE
  /\ RunIdle

\* the song and artist top-N sorts of history_top_by_year, the two platform scripts and
\* count_bad_bunny_playlist_plays, and the song/artist sorts of history_top_from_folder
Rank ==
  /\ ~fnDone
  /\ fnOut' = <<SortCountThenName(fnIn), SortMsOnly(fnIn)>>
  /\ fnDone' = TRUE
  /\ UNCHANGED fnIn
  /\ UNCHANGED <<clsVars, runVars>>

SpecRank == InitRank /\ [][Rank]_vars

\* C14: every top-N list is ordered by descending count, ties by ascending display name.
RankingOrder ==
  fnDone =>
    \A o \in 1..2 : \A i \in 1..(Len(fnOut[o]) - 1) :
      \/ fnOut[o][i].cnt > fnOut[o][i + 1].cnt
      \/ fnOut[o][i].cnt = fnOut[o][i + 1].cnt /\ ~StrLess(fnOut[o][i + 1].disp, fnOut[o][i].disp)

\* ------------------------------------------------------------------
\* Statistics: compute_gini and the flatness metric (history_top_by_year.main)
\* Floats are modelled as exact rationals (see Rat).
\* ------------------------------------------------------------------

RECURSIVE SumSeq(_)
SumSeq(sq) == IF sq = <<>> THEN 0 ELSE Head(sq) + SumSeq(Tail(sq))
\* cum = sum(i * x for i, x in enumerate(arr, start=1))
WeightedSum(arr) == LET F[i \in 0..Len(arr)] == IF i = 0 THEN 0 ELSE F[i - 1] + i * arr[i] IN F[Len(arr)]
Positives(counts) == SelectSeq(counts, LAMBDA c : c > 0)

\* mutant: zero counts are kept (no filter to positive values)
ComputeGiniKeepZeros(counts) ==
  LET arr == SortAsc(counts)
      n == Len(arr)
      cum == WeightedSum(arr)
      total == SumSeq(arr)
  IN IF n = 0 THEN Zero
     ELSE IF total = 0 THEN Zero
     ELSE RatMax(Zero, RatMin(One, RatSub(Rat(2 * cum, n * total), Rat(n + 1, n))))

\* mutant: the positive counts are not sorted before weighting
ComputeGiniUnsorted(counts) ==
  LET arr == Positives(counts)
      n == Len(arr)
      cum == WeightedSum(arr)
      total == SumSeq(arr)
  IN IF n = 0 THEN Zero
     ELSE IF total = 0 THEN Zero
     ELSE RatMax(Zero, RatMin(One, RatSub(Rat(2 * cum, n * total), Rat(n + 1, n))))

\* compute_gini(counts)
ComputeGini(counts) ==
  LET arr0 == Positives(counts)
      n == Len(arr0)
      arr == SortAsc(arr0)
      cum == WeightedSum(arr)
      total == SumSeq(arr)
  IN IF n = 0 THEN Zero
     ELSE IF total = 0 THEN Zero
     ELSE RatMax(Zero, RatMin(One, RatSub(Rat(2 * cum, n * total), Rat(n + 1, n))))

MaxCounts == 4
\* per-song play counts of one artist (0 included: compute_gini's filter drops it)
CountValues == {0, 1, 2, 5, 100}

InitGini ==
  /\ fnIn \in UNION {[1..n -> CountValues] : n \in 0..MaxCounts}
  /\ fnOut = Zero
  /\ fnDone = FALSE
  /\ clsIn = JNone /\ clsOut = <<>> /\ clsDone = FALSE
  /\ RunIdle

\* g = compute_gini(counts)
Gini ==
  /\ ~fnDone
  /\ fnOut' = ComputeGini(fnIn)
  /\ fnDone' = TRUE
  /\ UNCHANGED fnIn
  /\ UNCHANGED <<clsVars, runVars>>

SpecGini == InitGini /\ [][Gini]_vars

\* the positive values of counts in ascending order (a sorted permutation)
ClaimAscPositives(counts) ==
  LET pos == SelectSeq(counts, LAMBDA c : c > 0)
      Occ(sq, v) == Cardinality({i \in DOMAIN sq : sq[i] = v})
  IN CHOOSE arr \in [1..Len(pos) -> Range(pos)] :
       /\ \A i \in 1..(Len(pos) - 1) : arr[i] <= arr[i + 1]
       /\ \A v \in Range(pos) : Occ(arr, v) = Occ(pos, v)

\* C15: gini filters to positive values, sorts ascending, is 0 when n = 0 or total = 0,
\* else (2 * sum i*x_i)/(n*total) - (n+1)/n clamped to [0,1]; the result lies in [0,1];
\* gini([]) = gini([5]) = gini([1,1,1,1]) = 0.
GiniFormula ==
  fnDone =>
    LET arr == ClaimAscPositives(fnIn)
        n == Len(arr)
        total == SumSeq(arr)
        cum == SumSeq([i \in 1..n |-> i * arr[i]])
    IN /\ (n = 0 \/ total = 0) => RatEq(fnOut, Zero)
       /\ (n > 0 /\ total > 0) =>
            RatEq(fnOut, RatMax(Zero, RatMin(One, Rat(2 * cum * n - (n + 1) * n * total, n * total * n))))
       /\ RatLe(Zero, fnOut) /\ RatLe(fnOut, One)
       /\ fnIn \in {<<>>, <<5>>, <<1, 1, 1, 1>>} => RatEq(fnOut, Zero)

\* an unsorted input with zeros and several distinct positive counts has been evaluated
GiniFormulaWitness ==
  /\ fnDone
  /\ \E i \in DOMAIN fnIn : fnIn[i] = 0
  /\ \E i \in 1..(Len(fnIn) - 1) : fnIn[i] > fnIn[i + 1] /\ fnIn[i + 1] > 0
  /\ ~RatEq(fnOut, Zero)

\* C16 (as stated): gini([100,0,0,0]) is the maximum Gini value for n = 4, i.e. the closed
\* form (2*cum)/(n*total) - (n+1)/n on [0,0,0,100], which is (n-1)/n = 3/4.
GiniConcentratedMax ==
  (fnDone /\ fnIn = <<100, 0, 0, 0>>) => RatEq(fnOut, Rat(3, 4))

\* C16 (amended): the zeros are filtered first, so gini([100,0,0,0]) is the closed form
\* on [100] with n = 1, 2*100/(1*100) - 2/1 = 0.0, the same as gini([100]).
GiniConcentratedZero ==
  (fnDone /\ fnIn = <<100, 0, 0, 0>>) => RatEq(fnOut, Rat(2 * 100 * 1 - 2 * 1 * 100, 1 * 100 * 1))

GiniConcentratedWitness == fnDone /\ fnIn = <<100, 0, 0, 0>>

\* mutant: diversity counts every song of the artist, including those with 0 plays
FlatnessCountsZeros(counts) ==
  LET numSongs == Len(counts)
      g == ComputeGini(counts)
      diversity == IF numSongs > 1 THEN RatSub(One, Rat(1, numSongs)) ELSE Zero
  IN RatMul(RatSub(One, g), diversity)

\* num_songs = len([c for c in counts if c > 0]); g = compute_gini(counts)
\* diversity = (1.0 - 1.0 / num_songs) if num_songs > 1 else 0.0
\* flatness = (1.0 - g) * diversity
Flatness(counts) ==
  LET numSongs == Len(Positives(counts))
      g == ComputeGini(counts)
      diversity == IF numSongs > 1 THEN RatSub(One, Rat(1, numSongs)) ELSE Zero
  IN RatMul(RatSub(One, g), diversity)

InitFlatness ==
  /\ fnIn \in UNION {[1..n -> CountValues] : n \in 0..MaxCounts}
  /\ fnOut = Zero
  /\ fnDone = FALSE
  /\ clsIn = JNone /\ clsOut = <<>> /\ clsDone = FALSE
  /\ RunIdle

\* flatness of one artist's per-song counts
FlatnessStep ==
  /\ ~fnDone
  /\ fnOut' = Flatness(fnIn)
  /\ fnDone' = TRUE
  /\ UNCHANGED fnIn
  /\ UNCHANGED <<clsVars, runVars>>

SpecFlatness == InitFlatness /\ [][FlatnessStep]_vars

\* C17: flatness = (1 - gini(counts)) * diversity with diversity = 1 - 1/numPositive when
\* numPositive > 1, else 0; it is exactly 0 with fewer than 2 positive counts and lies in [0,1].
FlatnessFormula ==
  fnDone =>
    LET np == Cardinality({i \in DOMAIN fnIn : fnIn[i] > 0})
        diversity == IF np > 1 THEN Rat(np - 1, np) ELSE Zero
    IN /\ RatEq(fnOut, RatMul(RatSub(One, ComputeGini(fnIn)), diversity))
       /\ np < 2 => fnOut.num = 0
       /\ RatLe(Zero, fnOut) /\ RatLe(fnOut, One)

\* an artist with one positive count among zero counts, and one with several positive counts
FlatnessFormulaWitness ==
  /\ fnDone
  /\ Cardinality({i \in DOMAIN fnIn : fnIn[i] > 0}) >= 2
  /\ \E i \in DOMAIN fnIn : fnIn[i] = 0
  /\ ~RatEq(fnOut, Zero)

\* ------------------------------------------------------------------
\* Consistency metric (history_top_by_year.main, lines 222-238)
\* ------------------------------------------------------------------
ConsistencyCap == 10

\* sum of f[x] over the finite set S
RECURSIVE SumOver(_, _)
SumOver(f, S) == IF S = {} THEN 0 ELSE LET x == CHOOSE x \in S : TRUE IN f[x] + SumOver(f, S \ {x})

\* mutant: a song's years are counted over every year seen in the history
ConsistencyScoresAllYears(songYear) ==
  LET keys == {p[2] : p \in DOMAIN songYear}
      allYears == {p[1] : p \in DOMAIN songYear}
      yearMap(k) == [y \in {p[1] : p \in {q \in DOMAIN songYear : q[2] = k}} |-> songYear[<<y, k>>]]
  IN [k \in keys |->
        [score |-> SumOver([y \in DOMAIN yearMap(k) |-> IF yearMap(k)[y] < ConsistencyCap THEN yearMap(k)[y] ELSE ConsistencyCap], DOMAIN yearMap(k)),
         yearsActive |-> Cardinality(allYears),
         total |-> SumOver(yearMap(k), DOMAIN yearMap(k))]]

\* mutant: the per-year plays are summed without the cap
ConsistencyScoresUncapped(songYear) ==
  LET keys == {p[2] : p \in DOMAIN songYear}
      yearMap(k) == [y \in {p[1] : p \in {q \in DOMAIN songYear : q[2] = k}} |-> songYear[<<y, k>>]]
  IN [k \in keys |->
        [score |-> SumOver(yearMap(k), DOMAIN yearMap(k)),
         yearsActive |-> Cardinality(DOMAIN yearMap(k)),
         total |-> SumOver(yearMap(k), DOMAIN yearMap(k))]]

\* song_year_counts[song_key][year] from song_counts_by_year, then for each song:
\* years_active = len(year_map); total = sum(year_map.values());
\* score = sum(min(cnt, CONSISTENCY_CAP_PER_YEAR) for cnt in year_map.values())
ConsistencyScores(songYear) ==
  LET keys == {p[2] : p \in DOMAIN songYear}
      yearMap(k) == [y \in {p[1] : p \in {q \in DOMAIN songYear : q[2] = k}} |-> songYear[<<y, k>>]]
  IN [k \in keys |->
        [score |-> SumOver([y \in DOMAIN yearMap(k) |-> IF yearMap(k)[y] < ConsistencyCap THEN yearMap(k)[y] ELSE ConsistencyCap], DOMAIN yearMap(k)),
         yearsActive |-> Cardinality(DOMAIN yearMap(k)),
         total |-> SumOver(yearMap(k), DOMAIN yearMap(k))]]

ConsYears == {Txt.Y2019, Txt.Y2020, Txt.Y2021}
ConsSongs == {Txt.U1, Txt.U2}
\* per-year play counts of a song (a song with no play in a year has no entry)
ConsCounts == {3, 10, 15, 40}

\* song_counts_by_year flattened to <<year, song_key>> -> count, as yBk.songYear
InitConsistency ==
  /\ fnIn \in UNION {[D -> ConsCounts] : D \in SUBSET (ConsYears \X ConsSongs)}
  /\ fnOut = <<>>
  /\ fnDone = FALSE
  /\ clsIn = JNone /\ clsOut = <<>> /\ clsDone = FALSE
  /\ RunIdle

Consistency ==
  /\ ~fnDone
  /\ fnOut' = ConsistencyScores(fnIn)
  /\ fnDone' = TRUE
  /\ UNCHANGED fnIn
  /\ UNCHANGED <<clsVars, runVars>>

SpecConsistency == InitConsistency /\ [][Consistency]_vars

\* C18: for each song, score = sum over its years of min(countInYear, 10), yearsActive = the
\* number of years with a play, totalPlays = sum of countInYear; {15, 3, 40} gives 23, 3, 58.
ConsistencyFormula ==
  fnDone =>
    /\ DOMAIN fnOut = {p[2] : p \in DOMAIN fnIn}
    /\ \A k \in DOMAIN fnOut :
         LET ys == {y \in ConsYears : <<y, k>> \in DOMAIN fnIn}
         IN /\ fnOut[k].score = SumOver([y \in ys |-> IF fnIn[<<y, k>>] > 10 THEN 10 ELSE fnIn[<<y, k>>]], ys)
            /\ fnOut[k].yearsActive = Cardinality({y \in ys : fnIn[<<y, k>>] >= 1})
            /\ fnOut[k].total = SumOver([y \in ys |-> fnIn[<<y, k>>]], ys)
    /\ \A k \in DOMAIN fnOut :
         (<<Txt.Y2019, k>> \in DOMAIN fnIn /\ <<Txt.Y2020, k>> \in DOMAIN fnIn /\ <<Txt.Y2021, k>> \in DOMAIN fnIn
          /\ fnIn[<<Txt.Y2019, k>>] = 15 /\ fnIn[<<Txt.Y2020, k>>] = 3 /\ fnIn[<<Txt.Y2021, k>>] = 40)
           => fnOut[k] = [score |-> 23, yearsActive |-> 3, total |-> 58]

\* the documented example, beside a song active in fewer years
ConsistencyFormulaWitness ==
  /\ fnDone
  /\ \E k \in DOMAIN fnOut : fnOut[k] = [score |-> 23, yearsActive |-> 3, total |-> 58]
  /\ \E k \in DOMAIN fnOut : fnOut[k].yearsActive = 1

\* consistency_scores.sort(...) (line 236)
SortConsistency(results) == SortStable("consistency", results)

MaxResults == 3
\* one consistency result: its position in dict order (the song key), display, score,
\* years active and total plays
ConsResult == [disp : {Txt.NameAlpha, Txt.NameBeta}, score : {10, 23}, yearsActive : {1, 3}, total : {23, 58}]

InitConsRank ==
  /\ fnIn \in UNION {[1..n -> ConsResult] : n \in 0..MaxResults}
  /\ fnOut = <<>>
  /\ fnDone = FALSE
  /\ clsIn = JNone /\ clsOut = <<>> /\ clsDone = FALSE
  /\ RunIdle

\* the sorted consistency results; key is the song key (distinct per result)
ConsRank ==
  /\ ~fnDone
  /\ fnOut' = SortConsistency([i \in DOMAIN fnIn |->
                [key |-> i, disp |-> fnIn[i].disp, score |-> fnIn[i].score,
                 yearsActive |-> fnIn[i].yearsActive, total |-> fnIn[i].total]])
  /\ fnDone' = TRUE
  /\ UNCHANGED fnIn
  /\ UNCHANGED <<clsVars, runVars>>

SpecConsRank == InitConsRank /\ [][ConsRank]_vars

\* C19: consistency results are ordered by descending score, then descending yearsActive,
\* then descending totalPlays, then ascending display name; results equal on all four
\* are printed as identical rows, so the printed order is total and deterministic.
ConsistencyRanking ==
  fnDone =>
    /\ Len(fnOut) = Len(fnIn)
    /\ {fnOut[i].key : i \in DOMAIN fnOut} = DOMAIN fnIn
    /\ \A i \in DOMAIN fnOut : fnOut[i].disp = fnIn[fnOut[i].key].disp /\ fnOut[i].score = fnIn[fnOut[i].key].score
                               /\ fnOut[i].yearsActive = fnIn[fnOut[i].key].yearsActive
                               /\ fnOut[i].total = fnIn[fnOut[i].key].total
    /\ \A i \in 1..(Len(fnOut) - 1) :
         LET a == fnOut[i]
             b == fnOut[i + 1]
         IN \/ a.score > b.score
            \/ a.score = b.score /\ a.yearsActive > b.yearsActive
            \/ a.score = b.score /\ a.yearsActive = b.yearsActive /\ a.total > b.total
            \/ a.score = b.score /\ a.yearsActive = b.yearsActive /\ a.total = b.total
               /\ ~StrLess(b.disp, a.disp)

\* a ranking where every tie-break level decides some adjacent pair
ConsistencyRankingWitness ==
  /\ fnDone
  /\ Len(fnOut) = 3
  /\ fnOut[1].score = fnOut[2].score /\ fnOut[1].yearsActive > fnOut[2].yearsActive
  /\ fnOut[2].score = fnOut[3].score /\ fnOut[2].yearsActive = fnOut[3].yearsActive
  /\ fnOut[2].total = fnOut[3].total /\ fnOut[2].disp # fnOut[3].disp

\* ------------------------------------------------------------------
\* Artist flatness rankings (history_top_by_year.main, lines 240-264)
\* ------------------------------------------------------------------
FlatnessMinPlays == 250
FlatnessListLen == 50

Min(a, b) == IF a < b THEN a ELSE b

\* the float rounding class of an artist's flatness: its positive counts, sorted
FloatKey(counts) == SortAsc(Positives(counts))

\* (artist, flatness, num_songs, total) for every artist with num_songs > 0 and total > 0;
\* ulp gives the rounding of each float (see FloatLt)
ArtistFlatnessRows(artists, ulp) ==
  LET rows == [i \in DOMAIN artists |->
                 [name |-> artists[i].name, flat |-> Flatness(artists[i].counts),
                  ulp |-> ulp[FloatKey(artists[i].counts)],
                  num |-> Len(Positives(artists[i].counts)), total |-> SumSeq(artists[i].counts)]]
  IN SelectSeq(rows, LAMBDA t : t.num > 0 /\ t.total > 0)

\* mutant: the > 250 filter is applied to each list after sorting and truncation
ArtistFlatnessListsFilterLast(artists, ulp) ==
  LET rows == ArtistFlatnessRows(artists, ulp)
      top == SortStable("flatTop", rows)
      bottom == SortStable("flatBottom", rows)
  IN <<SelectSeq(SubSeq(top, 1, Min(FlatnessListLen, Len(top))), LAMBDA t : t.total > FlatnessMinPlays),
       SelectSeq(SubSeq(bottom, 1, Min(FlatnessListLen, Len(bottom))), LAMBDA t : t.total > FlatnessMinPlays)>>

\* artist_flatness = [t for t in artist_flatness if t[3] > 250]; sort; [:50]
\* bottom = sorted(artist_flatness, key=...)[:50]
ArtistFlatnessLists(artists, ulp) ==
  LET kept == SelectSeq(ArtistFlatnessRows(artists, ulp), LAMBDA t : t.total > FlatnessMinPlays)
      top == SortStable("flatTop", kept)
      bottom == SortStable("flatBottom", kept)
  IN <<SubSeq(top, 1, Min(FlatnessListLen, Len(top))), SubSeq(bottom, 1, Min(FlatnessListLen, Len(bottom)))>>

\* decimal name of artist i (distinct names for any number of artists)
RECURSIVE DecStr(_)
DecStr(i) == IF i < 10 THEN <<DigitSeq[i + 1]>> ELSE DecStr(i \div 10) \o <<DigitSeq[(i % 10) + 1]>>

\* per-song play counts of an artist at or below the threshold and above it
LowPatterns == {<<100, 100>>, <<250>>, <<125, 125>>}
HighPatterns == {<<150, 151>>, <<251>>, <<300, 1>>, <<20, 60, 240>>}
\* a second kind of artist above the threshold, whose exact flatness 13/36 equals that of
\* <<20, 60, 240>> while the code's floats differ
SecondHighPattern == <<60, 210>>
\* numbers of artists of each kind: around the list length, so that truncation happens
ArtistNumbers == {0, 1, 2, FlatnessListLen, FlatnessListLen + 1}
ArtistPopulations == [nLow : ArtistNumbers, low : LowPatterns, nHigh : ArtistNumbers, high : HighPatterns,
                      nSecond : {0, 1}]
\* artist_song_counts as (artist, list of per-song counts) in dict order
Artists(pop) ==
  [i \in 1..(pop.nLow + pop.nHigh + pop.nSecond) |->
     [name |-> DecStr(i),
      counts |-> IF i <= pop.nLow THEN pop.low
                 ELSE IF i <= pop.nLow + pop.nHigh THEN pop.high ELSE SecondHighPattern]]
\* the roundings the floats can have: a rounding class whose exact flatness equals that of
\* another class may compare below, equal or above it; a single positive count gives
\* diversity 0.0 and the exact float 0.0
FloatRoundings(artists) ==
  LET keys == {FloatKey(artists[i].counts) : i \in DOMAIN artists}
      tied(m) == Len(m) > 1 /\ \E m2 \in keys : m2 # m /\ RatEq(Flatness(m), Flatness(m2))
  IN {u \in [keys -> {-1, 0, 1}] : \A m \in keys : ~tied(m) => u[m] = 0}

InitArtistFlatness ==
  /\ fnIn \in UNION {{[artists |-> Artists(pop), ulp |-> u] : u \in FloatRoundings(Artists(pop))} : pop \in ArtistPopulations}
  /\ fnOut = <<<<>>, <<>>>>
  /\ fnDone = FALSE
  /\ clsIn = JNone /\ clsOut = <<>> /\ clsDone = FALSE
  /\ RunIdle

\* the two printed lists: top 50 and bottom 50 artists by flatness
ArtistFlatnessRank ==
  /\ ~fnDone
  /\ fnOut' = ArtistFlatnessLists(fnIn.artists, fnIn.ulp)
  /\ fnDone' = TRUE
  /\ UNCHANGED fnIn
  /\ UNCHANGED <<clsVars, runVars>>

SpecArtistFlatness == InitArtistFlatness /\ [][ArtistFlatnessRank]_vars

\* C20: the top-50 and bottom-50 flatness lists contain only artists with more than 250
\* plays, and an artist with more than 250 plays is missing from a list only when that
\* list is full of 50 artists ranked before it.
ArtistFlatnessRestricted ==
  fnDone =>
    LET arts == fnIn.artists
        row(i) == [name |-> arts[i].name, flat |-> Flatness(arts[i].counts),
                   ulp |-> fnIn.ulp[FloatKey(arts[i].counts)],
                   num |-> Cardinality({j \in DOMAIN arts[i].counts : arts[i].counts[j] > 0}),
                   total |-> SumSeq(arts[i].counts)]
        eligible == {i \in DOMAIN arts : SumSeq(arts[i].counts) > 250}
    IN /\ \A o \in 1..2 : \A j \in DOMAIN fnOut[o] : fnOut[o][j].total > 250
       /\ \A i \in eligible :
            /\ \/ \E j \in DOMAIN fnOut[1] : fnOut[1][j].name = arts[i].name
               \/ Len(fnOut[1]) = 50 /\ \A j \in DOMAIN fnOut[1] : FlatTopBefore(fnOut[1][j], row(i))
            /\ \/ \E j \in DOMAIN fnOut[2] : fnOut[2][j].name = arts[i].name
               \/ Len(fnOut[2]) = 50 /\ \A j \in DOMAIN fnOut[2] : FlatBottomBefore(fnOut[2][j], row(i))

\* more than 50 artists, among them low-play artists flatter than an artist with more than
\* 250 plays, and that artist listed
ArtistFlatnessRestrictedWitness ==
  /\ fnDone
  /\ Len(fnIn.artists) > 50
  /\ \E i, k \in DOMAIN fnIn.artists :
       /\ SumSeq(fnIn.artists[i].counts) <= 250 /\ SumSeq(fnIn.artists[k].counts) > 250
       /\ ~RatLe(Flatness(fnIn.artists[i].counts), Flatness(fnIn.artists[k].counts))
       /\ \E j \in DOMAIN fnOut[1] : fnOut[1][j].name = fnIn.artists[k].name

\* ------------------------------------------------------------------
\* Record source: iter_history_records over a folder of *.json files.
\* A file is named by its stem (the name without ".json") and holds a
\* sequence of lines; each line is one of: "[" ("open"), "]" ("close"), a
\* complete JSON object ("obj"), a JSON object followed by a comma
\* ("objc"), non-JSON text ("garbage"), an empty line ("blank"), or bytes
\* that are not valid UTF-8 ("badbytes"). The file also records how many
\* of its leading lines lie in the read chunks decoded before the chunk
\* holding its first invalid byte ("pre"). The record yielded for the
\* object on line i of file n is <<n, i>>.
\* ------------------------------------------------------------------
MaxFiles == 2

\* glob.glob(os.path.join(folder, "*.json")): file names starting with "." are hidden and not
\* matched, among them ".json" itself (the empty stem)
GlobJson(S) == {n \in S : (n \o <<".", "j", "s", "o", "n">>)[1] # "."}

\* sorted() of the full paths: the folder prefix is shared, so the order is that of stem \o ".json"
RECURSIVE SortedNames(_)
SortedNames(S) ==
  IF S = {} THEN <<>>
  ELSE LET m == CHOOSE x \in S : \A y \in S : x = y \/ StrLess(x \o <<".", "j", "s", "o", "n">>, y \o <<".", "j", "s", "o", "n">>)
       IN <<m>> \o SortedNames(S \ {m})

LineIndices(lines) == [i \in 1..Len(lines) |-> i]

NonBlank(lines) == SelectSeq(lines, LAMBDA t : t # "blank")

\* json.load(f) succeeds with a list: "[" then objects separated by commas then "]"
JsonLoadIsList(lines) ==
  LET nb == NonBlank(lines)
  IN /\ Len(nb) >= 2
     /\ nb[1] = "open" /\ nb[Len(nb)] = "close"
     /\ \/ Len(nb) = 2
        \/ /\ nb[Len(nb) - 1] = "obj"
           /\ \A i \in 2..(Len(nb) - 2) : nb[i] = "objc"

\* json.load(f) succeeds with a value that is not a list (a single object)
JsonLoadIsOther(lines) == NonBlank(lines) = <<"obj">>

\* the elements of the parsed array, in file order
ArrayRows(name, lines) ==
  LET idx == SelectSeq(LineIndices(lines), LAMBDA i : lines[i] \in {"obj", "objc"})
  IN [j \in 1..Len(idx) |-> <<name, idx[j]>>]

\* the line-delimited fallback: json.loads(line.strip()) succeeds only on a
\* complete object; a trailing comma, a bracket or garbage is skipped
LineRows(name, lines) ==
  LET idx == SelectSeq(LineIndices(lines), LAMBDA i : lines[i] = "obj")
  IN [j \in 1..Len(idx) |-> <<name, idx[j]>>]

\* one file of the loop: f.read() in json.load decodes the whole file and raises on
\* invalid UTF-8 (caught); the fallback's 'for line in f' decodes chunk by chunk, yields
\* the lines of the chunks before the invalid one, then raises outside the try
ReadHistoryFile(name, file) ==
  IF "badbytes" \in Range(file.lines)
  THEN [rows |-> LineRows(name, SubSeq(file.lines, 1, file.pre)), crashed |-> TRUE]
  ELSE IF JsonLoadIsList(file.lines) THEN [rows |-> ArrayRows(name, file.lines), crashed |-> FALSE]
  ELSE IF JsonLoadIsOther(file.lines) THEN [rows |-> <<>>, crashed |-> FALSE]
  ELSE [rows |-> LineRows(name, file.lines), crashed |-> FALSE]

RECURSIVE IterFiles(_, _)
IterFiles(dir, names) ==
  IF names = <<>> THEN [rows |-> <<>>, crashed |-> FALSE]
  ELSE LET r == ReadHistoryFile(Head(names), dir[Head(names)])
       IN IF r.crashed THEN r
          ELSE LET rest == IterFiles(dir, Tail(names))
               IN [rows |-> r.rows \o rest.rows, crashed |-> rest.crashed]

\* every record the generator yields before it returns or raises
IterHistoryRecords(dir) == IterFiles(dir, SortedNames(GlobJson(DOMAIN dir)))

\* "a-.json" sorts before "a.json" ("-" < "."), the reverse of the stems' order; ".a.json" and
\* ".json" are hidden
FileNames == {<<"a">>, <<"a", "-">>, <<"b">>, <<".", "a">>, <<>>}

FileContents ==
  { <<"open", "close">>, <<"open", "obj", "close">>, <<"open", "objc", "obj", "close">>,
    <<"obj", "obj">>, <<"obj">>, <<"obj", "garbage", "obj">>, <<"obj", "blank", "obj">>,
    <<"open", "objc", "obj">>, <<"garbage">>, <<"badbytes">>, <<"blank">>,
    <<"obj", "obj", "badbytes">>, <<"obj", "badbytes", "obj">> }

\* a file's lines with every count of leading lines that chunk boundaries can put before
\* the chunk of the first invalid byte (any count is reached by choosing the line lengths)
FirstBad(lines) == CHOOSE i \in 1..Len(lines) : lines[i] = "badbytes" /\ \A j \in 1..(i - 1) : lines[j] # "badbytes"

HistoryFiles ==
  UNION { { [lines |-> c, pre |-> k] :
            k \in IF "badbytes" \in Range(c) THEN 0..(FirstBad(c) - 1) ELSE {Len(c)} } : c \in FileContents }

Folders ==
  UNION { [S -> HistoryFiles] : S \in {S \in SUBSET FileNames : Cardinality(S) <= MaxFiles} }

InitIngest ==
  /\ fnIn \in Folders
  /\ fnOut = [rows |-> <<>>, crashed |-> FALSE]
  /\ fnDone = FALSE
  /\ clsIn = JNone /\ clsOut = <<>> /\ clsDone = FALSE
  /\ RunIdle

\* drain the generator
Ingest ==
  /\ ~fnDone
  /\ fnOut' = IterHistoryRecords(fnIn)
  /\ fnDone' = TRUE
  /\ UNCHANGED fnIn
  /\ UNCHANGED <<clsVars, runVars>>

SpecIngest == InitIngest /\ [][Ingest]_vars

\* C21: ingestion never raises, and yields the files in lexicographic name order: a
\* well-formed JSON array contributes its elements, any other file its parseable lines in
\* order (none for a wholly corrupted file).
IngestOrderSkipsCorrupt ==
  fnDone =>
    LET names == SortedNames(GlobJson(DOMAIN fnIn))
        expect(n) == IF JsonLoadIsList(fnIn[n].lines) THEN ArrayRows(n, fnIn[n].lines)
                     ELSE IF "badbytes" \in Range(fnIn[n].lines) THEN <<>>
                     ELSE LineRows(n, fnIn[n].lines)
        RECURSIVE cat(_)
        cat(i) == IF i > Len(names) THEN <<>> ELSE expect(names[i]) \o cat(i + 1)
    IN ~fnOut.crashed /\ fnOut.rows = cat(1)

\* ------------------------------------------------------------------
\* Counting in history_top_by_year over the filter stream (which holds
\* exact duplicates, excluded platforms and short plays)
\* ------------------------------------------------------------------
\* the records of stream consumed so far by history_top_by_year that pass its filters
QualifyingProcessed == Cardinality({i \in 1..(pcY - 1) : Qualifies(stream[i])})

\* C22: the global song counts, the global artist counts and the per-year song counts each
\* sum to the number of qualifying records processed, duplicates included, and no count of
\* any bucket ever decreases.
NoDedupMonotone ==
  /\ [] /\ SumOver(yBk.globalSong, DOMAIN yBk.globalSong) = QualifyingProcessed
        /\ SumOver(yBk.globalArtist, DOMAIN yBk.globalArtist) = QualifyingProcessed
        /\ SumOver(yBk.songYear, DOMAIN yBk.songYear) = QualifyingProcessed
  /\ [][ \A b \in 1..Len(YBuckets) :
           \A k \in DOMAIN YBuckets[b] : k \in DOMAIN YBuckets'[b] /\ YBuckets'[b][k] >= YBuckets[b][k]
       ]_vars

\* two identical qualifying records processed, counted twice under one key
NoDedupMonotoneWitness ==
  /\ pcY = 3
  /\ stream[1] = stream[2]
  /\ Qualifies(stream[1])
  /\ \E k \in DOMAIN yBk.globalSong : yBk.globalSong[k] = 2

\* ------------------------------------------------------------------
\* Old versus new criteria in count_bad_bunny_playlist_plays: records by
\* the lead artist in several spellings, by another artist and without an
\* artist, with and without a playlist identifier or title match
\* ------------------------------------------------------------------
OldCriteriaRecords ==
  [platform : {JNone}, ms : {JInt(MinMsPlayed + 1)}, uri : {JNone, JStr(Txt.U1), JStr(Txt.U2)},
   title : {JStr(Txt.T1), JStr(Txt.NameA)},
   artist : {JNone, JStr(BadBunny), JStr(<<" ">> \o Lower(BadBunny)), JStr(Txt.ArtistX)},
   album : {JStr(Txt.Al1)}, ts : {JStr(Txt.Ts2020)}]

InitOldCriteria ==
  /\ stream \in UNION {[1..n -> OldCriteriaRecords] : n \in 0..MaxStream}
  \* only count_bad_bunny_playlist_plays runs here
  /\ pcY = Len(stream) + 1 /\ pcG = Len(stream) + 1 /\ pcP = Len(stream) + 1 /\ pcF = Len(stream) + 1
  /\ pcB = 1
  /\ catalog = FilterCatalog /\ catPos = 1
  /\ yBk = EmptyY /\ gSt = EmptyG /\ pSt = EmptyP /\ fSt = EmptyF /\ bSt = EmptyB /\ bCat = EmptyCat
  /\ clsIn = JNone /\ clsOut = <<>> /\ clsDone = FALSE
  /\ FnIdle

NextOldCriteria ==
  \/ FetchPlaylistItem
  \/ PlaylistScanStep

SpecOldCriteria == InitOldCriteria /\ [][NextOldCriteria]_vars

\* C23: for every display key the old-criteria count is at most the playlist-matched count,
\* so every "additional plays" difference is non-negative, and the old-criteria total is at
\* most total_plays.
OldWithinNew ==
  /\ \A d \in DOMAIN bSt.old : d \in DOMAIN bSt.song /\ bSt.old[d] <= bSt.song[d]
  /\ \A d \in DOMAIN bSt.song : bSt.song[d] - Cnt(bSt.old, d) >= 0
  /\ SumOver(bSt.old, DOMAIN bSt.old) <= bSt.total

\* a matched song played once credited to the lead artist and once to another artist:
\* one old-criteria play against two playlist-matched plays
OldWithinNewWitness ==
  \E d \in DOMAIN bSt.old : bSt.old[d] >= 1 /\ bSt.old[d] < bSt.song[d]

\* ------------------------------------------------------------------
\* Consistency of songs counted by history_top_by_year from a long stream
\* of plays of one song in two years (more plays than the per-year cap)
\* ------------------------------------------------------------------
MaxPlays == 11

PlayRecords ==
  [platform : {JNone}, ms : {JInt(MinMsPlayed + 1)}, uri : {JStr(Txt.U1)}, title : {JStr(Txt.NameA)},
   artist : {JStr(Txt.ArtistX)}, album : {JStr(Txt.Al1)}, ts : {JStr(Txt.Ts2020), JStr(Txt.Ts201)}]

InitPlays ==
  /\ stream \in UNION {[1..n -> PlayRecords] : n \in 0..MaxPlays}
  \* only history_top_by_year runs here
  /\ pcY = 1
  /\ pcG = Len(stream) + 1 /\ pcP = Len(stream) + 1 /\ pcF = Len(stream) + 1 /\ pcB = Len(stream) + 1
  /\ catalog = <<>> /\ catPos = 1
  /\ yBk = EmptyY /\ gSt = EmptyG /\ pSt = EmptyP /\ fSt = EmptyF /\ bSt = EmptyB /\ bCat = EmptyCat
  /\ clsIn = JNone /\ clsOut = <<>> /\ clsDone = FALSE
  /\ FnIdle

SpecPlays == InitPlays /\ [][ByYearStep]_vars

\* C24: every song of the consistency computation has 1 <= yearsActive <= score <=
\* min(total, 10 * yearsActive), and its per-year counts sum to its global song count.
ConsistencyBounds ==
  LET cs == ConsistencyScores(yBk.songYear)
  IN \A k \in DOMAIN cs :
       /\ 1 <= cs[k].yearsActive
       /\ cs[k].yearsActive <= cs[k].score
       /\ cs[k].score <= Min(cs[k].total, ConsistencyCap * cs[k].yearsActive)
       /\ k \in DOMAIN yBk.globalSong
       /\ SumOver([y \in {p[1] : p \in {q \in DOMAIN yBk.songYear : q[2] = k}} |-> yBk.songYear[<<y, k>>]],
                  {p[1] : p \in {q \in DOMAIN yBk.songYear : q[2] = k}}) = yBk.globalSong[k]

\* a song with more plays in a year than the cap: its score is below its total
ConsistencyBoundsWitness ==
  LET cs == ConsistencyScores(yBk.songYear)
  IN \E k \in DOMAIN cs : cs[k].score < cs[k].total

====
